---- MODULE Spec2Model ----
(***************************************************************************)
(* A model of twittra's core: the MariaDB message repository, the         *)
(* timeline (recommendation) service, the cache-through traQ service and   *)
(* the message crawler.                                                    *)
(*                                                                         *)
(* Tables are sets of rows.  A Message's reactions (a Vec<Reaction> in the *)
(* source) are a set of (stamp_id, user_id, stamp_count) records: traQ     *)
(* returns at most one entry per (stamp_id, user_id).  Option<T> is a set  *)
(* with at most one element.  Timestamps are seconds.                      *)
(***************************************************************************)
EXTENDS Integers, Sequences, FiniteSets, TLC

VARIABLES
    messages,       \* table messages: rows with last_crawled_at
    reactions,      \* table reactions: (message_id, stamp_id, user_id, stamp_count)
    read_messages,  \* table read_messages: (user_id, message_id)
    users,          \* table users: (id, handle, display_name)
    user_tokens,    \* table user_tokens: the user ids that hold an access token
    stamps,         \* table stamps: (id, name)
    now,            \* the wall clock, in seconds
    call,           \* the last repository / timeline call: what it was given and returned
    up_messages,    \* traQ: the messages it holds, as get_message returns them
    crawler,        \* the crawler task: where it is in crawl() and its locals
    trace,          \* what the current (or last) crawler tick has done so far
    svc,            \* the TraqService invocations in flight and what they did
    io              \* Socket.IO: the rooms the clients are in, what each has received

vars == <<messages, reactions, read_messages, users, user_tokens, stamps, now, call,
          up_messages, crawler, trace, svc, io>>

\* traQ and the tasks, for the specifications that call the repository directly
sysVars == <<stamps, up_messages, crawler, trace, svc, io>>

----------------------------------------------------------------------------
(* Bounds of the model. *)

\* how many 30-second steps the clock may take
MaxTicks == 2

\* how many messages one save_batch call is given at most
MaxBatch == 2

\* how many invocations of add_message_stamp and remove_message_stamp there are
MaxCalls == 2

(* Program constants. *)

SleepSecs == 30
RecentAgeHours == 3
MediumAgeHours == 12
RecentIntervalMinutes == 1
MediumIntervalMinutes == 10
OldIntervalMinutes == 30
SyncWindowHours == 24
TopWindowDays == 7
AllowlistWindowDays == 30
TimelineLimit == 50
AffinityUserLimit == 20
AffinityChannelLimit == 10
SimilarUserLimit == 20

Seconds(n) == n
Minutes(n) == n * 60
Hours(n) == n * 3600
Days(n) == n * 86400

(* The small universes the inputs are drawn from. *)

Users == {"u1", "u2"}
Stamps == {"s1"}
Channels == {"c1", "c2"}
MsgIds == {"m1", "m2"}
Contents == {"old", "new"}
Counts == {1, 2}

\* the clock starts here
T0 == Days(0)

\* the Socket.IO clients
Clients == {"k1", "k2"}

\* SocketIo::new_layer(): no socket is in a room, no client has received an
\* event; inbox counts the messageUpdated events per client and message id
IoIdle == [rooms |-> {}, inbox |-> [c \in Clients |-> [id \in MsgIds |-> 0]]]

----------------------------------------------------------------------------
(* Domain model: crates/domain/src/model.rs *)

Reaction(s, u, c) == [stamp_id |-> s, user_id |-> u, stamp_count |-> c]

Message(id, u, ch, co, cr, up, rs) ==
    [id |-> id, user_id |-> u, channel_id |-> ch, content |-> co,
     created_at |-> cr, updated_at |-> up, reactions |-> rs]

\* impl PartialEq for Message: the six scalar fields, then the reactions
\* sorted and compared (last_crawled_at is no field of Message)
MessageEq(a, b) ==
    /\ a.id = b.id
    /\ a.user_id = b.user_id
    /\ a.channel_id = b.channel_id
    /\ a.content = b.content
    /\ a.created_at = b.created_at
    /\ a.updated_at = b.updated_at
    /\ a.reactions = b.reactions

\* a reaction list with at most one entry per (stamp_id, user_id)
KeyUnique(rs) ==
    \A x, y \in rs : (x.stamp_id = y.stamp_id /\ x.user_id = y.user_id) => x = y

AllReactions == {Reaction(s, u, c) : s \in Stamps, u \in Users, c \in Counts}

ReactionSets == {rs \in SUBSET AllReactions : KeyUnique(rs)}

----------------------------------------------------------------------------
(* Message repository: crates/infra/src/repository/mariadb/message.rs *)

\* the column default of messages.last_crawled_at on INSERT (the migration
\* is not part of the sources): the time of the insert
InsertDefaultLastCrawledAt(t) == t

\* a plausible slip: ON DUPLICATE KEY UPDATE without last_crawled_at
UpsertRow_KeepCrawled(tbl, m, t) ==
    IF \E r \in tbl : r.id = m.id
    THEN LET r == CHOOSE q \in tbl : q.id = m.id
         IN  [r EXCEPT !.content = m.content, !.updated_at = m.updated_at]
    ELSE [id |-> m.id, user_id |-> m.user_id, channel_id |-> m.channel_id,
          content |-> m.content, created_at |-> m.created_at,
          updated_at |-> m.updated_at,
          last_crawled_at |-> InsertDefaultLastCrawledAt(t)]

\* INSERT INTO messages ... ON DUPLICATE KEY UPDATE content, updated_at,
\* last_crawled_at = NOW(6): the row one message leaves behind
UpsertRow(tbl, m, t) ==
    IF \E r \in tbl : r.id = m.id
    THEN LET r == CHOOSE q \in tbl : q.id = m.id
         IN  [r EXCEPT !.content = m.content,
                       !.updated_at = m.updated_at,
                       !.last_crawled_at = t]
    ELSE [id |-> m.id, user_id |-> m.user_id, channel_id |-> m.channel_id,
          content |-> m.content, created_at |-> m.created_at,
          updated_at |-> m.updated_at,
          last_crawled_at |-> InsertDefaultLastCrawledAt(t)]

\* the messages table after the upsert of the messages ms at time t
UpsertMessages(tbl, ms, t) ==
    {r \in tbl : \A m \in ms : m.id # r.id} \cup {UpsertRow(tbl, m, t) : m \in ms}

\* the (message_id, reaction) pairs save and save_batch hand to update_reactions
reactions_data(ms) ==
    UNION {{[message_id |-> m.id, stamp_id |-> x.stamp_id, user_id |-> x.user_id,
             stamp_count |-> x.stamp_count] : x \in m.reactions} : m \in ms}

\* a plausible slip: the INSERT without the DELETE before it
update_reactions_NoDelete(tbl, message_ids, rows) ==
    {r \in tbl : \A x \in rows :
        ~(x.message_id = r.message_id /\ x.stamp_id = r.stamp_id /\ x.user_id = r.user_id)}
    \cup rows

\* update_reactions: DELETE FROM reactions WHERE message_id IN (...), then INSERT
update_reactions(tbl, message_ids, rows) ==
    IF message_ids = {} THEN tbl
    ELSE {r \in tbl : r.message_id \notin message_ids} \cup rows

\* SELECT MAX(created_at) FROM messages
find_latest_message_time ==
    IF messages = {} THEN {}
    ELSE {CHOOSE t \in {r.created_at : r \in messages} :
            \A r \in messages : r.created_at <= t}

ReactionsOf(tbl, id) ==
    {Reaction(x.stamp_id, x.user_id, x.stamp_count) : x \in {y \in tbl : y.message_id = id}}

\* find_by_id over given tables
FindIn(mtbl, rtbl, id) ==
    {Message(r.id, r.user_id, r.channel_id, r.content, r.created_at, r.updated_at,
             ReactionsOf(rtbl, id)) : r \in {q \in mtbl : q.id = id}}

find_by_id(id) == FindIn(messages, reactions, id)

\* a plausible slip: the query without its WHERE clause
find_sync_candidates_All ==
    {<<r.id, r.created_at, r.last_crawled_at>> : r \in messages}

\* WHERE created_at >= DATE_SUB(NOW(), INTERVAL 24 HOUR)
find_sync_candidates ==
    {<<r.id, r.created_at, r.last_crawled_at>> :
        r \in {q \in messages : q.created_at >= now - Hours(SyncWindowHours)}}

\* a plausible slip: the DELETE without its stamp_id and user_id conditions
RemoveReactionRows_WholeMessage(tbl, message_id, stamp_id, user_id) ==
    {r \in tbl : r.message_id # message_id}

\* DELETE FROM reactions WHERE message_id = ? AND stamp_id = ? AND user_id = ?
RemoveReactionRows(tbl, message_id, stamp_id, user_id) ==
    {r \in tbl : ~(r.message_id = message_id /\ r.stamp_id = stamp_id /\ r.user_id = user_id)}

remove_reaction(message_id, stamp_id, user_id) ==
    /\ reactions' = RemoveReactionRows(reactions, message_id, stamp_id, user_id)
    /\ UNCHANGED messages

\* save: the upsert and the reaction replacement in one transaction
save(message) ==
    /\ messages' = UpsertMessages(messages, {message}, now)
    /\ reactions' = update_reactions(reactions, {message.id}, reactions_data({message}))

\* a plausible slip: no early return, and the DELETE of update_reactions
\* built with no id to bind takes every row
save_batch_NoEarlyReturn(ms) ==
    /\ messages' = UpsertMessages(messages, ms, now)
    /\ reactions' = IF ms = {} THEN {}
                    ELSE update_reactions(reactions, {m.id : m \in ms}, reactions_data(ms))

\* save_batch: nothing on an empty input, else as save for all of them
save_batch(ms) ==
    IF ms = {}
    THEN UNCHANGED <<messages, reactions>>
    ELSE /\ messages' = UpsertMessages(messages, ms, now)
         /\ reactions' = update_reactions(reactions, {m.id : m \in ms}, reactions_data(ms))

\* a plausible slip: INSERT without IGNORE, which fails as a whole on a row
\* that is there already or comes twice in the statement
mark_messages_as_read_NoIgnore(user_id, message_ids) ==
    read_messages' =
        IF \/ \E i \in DOMAIN message_ids : <<user_id, message_ids[i]>> \in read_messages
           \/ \E i, j \in DOMAIN message_ids : i # j /\ message_ids[i] = message_ids[j]
        THEN read_messages
        ELSE read_messages \cup {<<user_id, message_ids[i]>> : i \in DOMAIN message_ids}

\* INSERT IGNORE INTO read_messages (user_id, message_id) VALUES ..., one
\* row per entry of the slice message_ids; nothing on an empty slice
mark_messages_as_read(user_id, message_ids) ==
    read_messages' =
        IF message_ids = <<>> THEN read_messages
        ELSE read_messages \cup {<<user_id, message_ids[i]>> : i \in DOMAIN message_ids}

----------------------------------------------------------------------------
(* Helpers for ORDER BY ... LIMIT and for the final sort of the timeline. *)

Min(a, b) == IF a <= b THEN a ELSE b
Max(a, b) == IF a >= b THEN a ELSE b

Range(q) == {q[i] : i \in DOMAIN q}

RECURSIVE Pow(_, _)
Pow(b, e) == IF e = 0 THEN 1 ELSE b * Pow(b, e - 1)

\* every result ORDER BY <key> DESC LIMIT <limit> may give over the rows S:
\* <<a, b>> \in ge says a's key is at least b's; rows of equal key come in
\* any order: a row no other row is above comes first, then the rest
RECURSIVE SortedPrefixes(_, _, _)
SortedPrefixes(S, ge, limit) ==
    IF limit = 0 \/ S = {} THEN {<<>>}
    ELSE UNION {{<<x>> \o q : q \in SortedPrefixes(S \ {x}, ge, limit - 1)} :
                    x \in {y \in S : \A z \in S : <<y, z>> \in ge}}

\* every result GROUP BY <x> ORDER BY COUNT(*) DESC LIMIT <limit> may give,
\* as the set of the <x> returned (the callers use it as an IN (...) list)
TopByCount(S, cnt, limit) ==
    {A \in SUBSET S :
        /\ Cardinality(A) = Min(limit, Cardinality(S))
        /\ \A a \in A : \A b \in S \ A : cnt[a] >= cnt[b]}

\* TIMESTAMPDIFF(HOUR, a, b): whole hours, truncated toward zero
HoursBetween(a, b) ==
    IF b >= a THEN (b - a) \div 3600 ELSE 0 - ((a - b) \div 3600)

----------------------------------------------------------------------------
(* Signal queries: mariadb/user.rs and mariadb/stamp.rs *)

\* the reactions of user_id joined with the messages they are on
StampedBy(user_id) ==
    {<<r, m>> \in reactions \X messages : r.user_id = user_id /\ r.message_id = m.id}

\* SELECT m.user_id FROM reactions r JOIN messages m ... WHERE r.user_id = ?
\* GROUP BY m.user_id ORDER BY COUNT(*) DESC LIMIT ?
find_frequently_stamped_users_by(user_id, limit) ==
    LET authors == {p[2].user_id : p \in StampedBy(user_id)}
        cnt == [a \in authors |->
                    Cardinality({p \in StampedBy(user_id) : p[2].user_id = a})]
    IN  TopByCount(authors, cnt, limit)

\* SELECT m.channel_id ... GROUP BY m.channel_id ORDER BY COUNT(*) DESC LIMIT ?
find_frequently_stamped_channels_by(user_id, limit) ==
    LET chans == {p[2].channel_id : p \in StampedBy(user_id)}
        cnt == [c \in chans |->
                    Cardinality({p \in StampedBy(user_id) : p[2].channel_id = c})]
    IN  TopByCount(chans, cnt, limit)

\* reactions r1 JOIN reactions r2 ON r1.message_id = r2.message_id
\* WHERE r1.user_id = ? AND r2.user_id != ?
find_similar_users(user_id, limit) ==
    LET pairs == {p \in reactions \X reactions :
                    /\ p[1].message_id = p[2].message_id
                    /\ p[1].user_id = user_id
                    /\ p[2].user_id # user_id}
        others == {p[2].user_id : p \in pairs}
        cnt == [u \in others |-> Cardinality({p \in pairs : p[2].user_id = u})]
    IN  TopByCount(others, cnt, limit)

----------------------------------------------------------------------------
(* Candidate queries: mariadb/message.rs *)

\* MessageRowWithReactions -> MessageListItem, after hydrate_messages
ListItem(r) ==
    [id |-> r.id, user_id |-> r.user_id,
     user |-> {u \in users : u.id = r.user_id},
     channel_id |-> r.channel_id, content |-> r.content,
     created_at |-> r.created_at, updated_at |-> r.updated_at,
     reactions |-> ReactionsOf(reactions, r.id)]

IsRead(user_id, id) == <<user_id, id>> \in read_messages

\* COUNT(r.user_id) of the LEFT JOIN reactions, per message
ReactionCount(id) == Cardinality({r \in reactions : r.message_id = id})

\* COUNT / POW(TIMESTAMPDIFF(HOUR, created_at, NOW()) + 2, 1.8), compared:
\* a / x^1.8 >= b / y^1.8  iff  a^5 * y^9 >= b^5 * x^9   (x, y > 0)
TopScoreGE(p, q) ==
    LET a == ReactionCount(p.id)
        b == ReactionCount(q.id)
        x == HoursBetween(p.created_at, now) + 2
        y == HoursBetween(q.created_at, now) + 2
    IN  Pow(a, 5) * Pow(y, 9) >= Pow(b, 5) * Pow(x, 9)

NewestFirst(p, q) == p.created_at >= q.created_at

find_top_reacted_messages(user_id, limit) ==
    LET rows == {ListItem(m) : m \in {r \in messages :
                    /\ r.created_at > now - Days(TopWindowDays)
                    /\ r.user_id # user_id
                    /\ ~IsRead(user_id, r.id)}}
    IN  SortedPrefixes(rows, {pq \in rows \X rows : TopScoreGE(pq[1], pq[2])}, limit)

find_messages_by_author_allowlist(author_ids, limit, user_id) ==
    IF author_ids = {} THEN {<<>>}
    ELSE LET rows == {ListItem(m) : m \in {r \in messages :
                        /\ r.created_at > now - Days(AllowlistWindowDays)
                        /\ r.user_id \in author_ids
                        /\ ~IsRead(user_id, r.id)}}
         IN  SortedPrefixes(rows, {pq \in rows \X rows : NewestFirst(pq[1], pq[2])}, limit)

find_messages_by_channel_allowlist(channel_ids, limit, user_id) ==
    IF channel_ids = {} THEN {<<>>}
    ELSE LET rows == {ListItem(m) : m \in {r \in messages :
                        /\ r.created_at > now - Days(AllowlistWindowDays)
                        /\ r.channel_id \in channel_ids
                        /\ ~IsRead(user_id, r.id)
                        /\ r.user_id # user_id}}
         IN  SortedPrefixes(rows, {pq \in rows \X rows : NewestFirst(pq[1], pq[2])}, limit)

----------------------------------------------------------------------------
(* Timeline service: crates/domain/src/service.rs, get_recommended_messages *)

\* base_score + (50 - i).max(0) * rank_multiplier for the 0-based rank i of
\* id in msgs, in hundredths; 0 when msgs does not hold id
Contribution(msgs, id, base_score, rank_multiplier) ==
    IF \E i \in DOMAIN msgs : msgs[i].id = id
    THEN LET i == CHOOSE j \in DOMAIN msgs : msgs[j].id = id
         IN  base_score + Max(50 - (i - 1), 0) * rank_multiplier
    ELSE 0

\* or_insert without and_modify: the score of the first list that holds id
Score_FirstOnly(id, top, auth, chan, sim) ==
    IF Contribution(top, id, 500, 10) > 0 THEN Contribution(top, id, 500, 10)
    ELSE IF Contribution(auth, id, 500, 15) > 0 THEN Contribution(auth, id, 500, 15)
    ELSE IF Contribution(chan, id, 300, 10) > 0 THEN Contribution(chan, id, 300, 10)
    ELSE Contribution(sim, id, 500, 10)

\* add_score over the four lists, in the order of the source
Score(id, top, auth, chan, sim) ==
    Contribution(top, id, 500, 10) + Contribution(auth, id, 500, 15)
    + Contribution(chan, id, 300, 10) + Contribution(sim, id, 500, 10)

\* entry(msg.id).or_insert: the item of the first list that holds id
FirstItem(id, top, auth, chan, sim) ==
    LET all == top \o auth \o chan \o sim
    IN  all[CHOOSE i \in DOMAIN all :
                /\ all[i].id = id
                /\ \A j \in DOMAIN all : all[j].id = id => i <= j]

\* the merge without take(50)
Merge_NoTake(top, auth, chan, sim) ==
    LET ids == {x.id : x \in Range(top) \cup Range(auth) \cup Range(chan) \cup Range(sim)}
        items == {FirstItem(id, top, auth, chan, sim) : id \in ids}
        ge == {pq \in items \X items :
                    Score(pq[1].id, top, auth, chan, sim) >= Score(pq[2].id, top, auth, chan, sim)}
    IN  SortedPrefixes(items, ge, Cardinality(items))

\* scored_messages.into_values() in the map's order, a stable sort by score
\* descending, take(50): every result that can come out
Merge(top, auth, chan, sim) ==
    LET ids == {x.id : x \in Range(top) \cup Range(auth) \cup Range(chan) \cup Range(sim)}
        items == {FirstItem(id, top, auth, chan, sim) : id \in ids}
        ge == {pq \in items \X items :
                    Score(pq[1].id, top, auth, chan, sim) >= Score(pq[2].id, top, auth, chan, sim)}
    IN  SortedPrefixes(items, ge, TimelineLimit)

\* the seven queries of get_recommended_messages, in the order in which `?`
\* is applied to their results: the three signal queries as they are
\* awaited, then the four results of tokio::join!
Queries ==
    <<"find_frequently_stamped_users_by", "find_frequently_stamped_channels_by",
      "find_similar_users", "find_top_reacted_messages",
      "find_messages_by_author_allowlist(affinity_users)",
      "find_messages_by_channel_allowlist",
      "find_messages_by_author_allowlist(similar_users)">>

\* the database answers every query
DbUp == [q \in DOMAIN Queries |-> "Ok"]

\* a plausible slip: a query that fails counts as an empty list
FirstError_Ignored(db) == "Ok"

\* the RepositoryError the first `?` that meets an Err returns with, "Ok" if
\* none does; db[q] is what query q answers with when it is run
FirstError(db) ==
    IF \A q \in DOMAIN db : db[q] = "Ok" THEN "Ok"
    ELSE db[CHOOSE q \in DOMAIN db :
                /\ db[q] # "Ok"
                /\ \A p \in DOMAIN db : db[p] # "Ok" => q <= p]

\* get_recommended_messages(user_id); the queries see one state of the store
get_recommended_messages(user_id, db) ==
    IF FirstError(db) # "Ok"
    THEN call' = [op |-> "get_recommended_messages", viewer |-> user_id, db |-> db,
                  returned |-> "Err", error |-> <<"Repository", FirstError(db)>>]
    ELSE
    \E A \in find_frequently_stamped_users_by(user_id, AffinityUserLimit) :
    \E C \in find_frequently_stamped_channels_by(user_id, AffinityChannelLimit) :
    \E S \in find_similar_users(user_id, SimilarUserLimit) :
    \E top \in find_top_reacted_messages(user_id, TimelineLimit) :
    \E auth \in find_messages_by_author_allowlist(A, TimelineLimit, user_id) :
    \E chan \in find_messages_by_channel_allowlist(C, TimelineLimit, user_id) :
    \E sim \in find_messages_by_author_allowlist(S, TimelineLimit, user_id) :
    \E result \in Merge(top, auth, chan, sim) :
        call' = [op |-> "get_recommended_messages", viewer |-> user_id, db |-> db,
                 returned |-> "Ok",
                 top |-> top, auth |-> auth, chan |-> chan, sim |-> sim,
                 read |-> {p[2] : p \in {q \in read_messages : q[1] = user_id}},
                 result |-> result]

----------------------------------------------------------------------------
(* SpecRepo: the message repository called directly, as its tests do. *)

InitStore ==
    /\ messages = {}
    /\ reactions = {}
    /\ read_messages = {}
    /\ users = {}
    /\ user_tokens = {}
    /\ stamps = {}
    /\ now = T0

\* the reaction lists given to save: none, one, one with a higher count, two
ReactionInputs ==
    {{}, {Reaction("s1", "u1", 1)}, {Reaction("s1", "u1", 2)},
     {Reaction("s1", "u1", 1), Reaction("s1", "u2", 1)}}

\* the messages given to save.  m1 takes two values in every field, and
\* differs from (u1, c1, T0) in at most one of user_id, channel_id,
\* created_at; m2 is the other message of the store
RepoInputs ==
    {m \in {Message("m1", u, ch, co, cr, cr + (IF co = "old" THEN 0 ELSE SleepSecs), rs) :
                u \in Users, ch \in Channels, co \in Contents,
                cr \in {T0, T0 - SleepSecs}, rs \in ReactionInputs} :
        Cardinality({f \in {"u", "ch", "cr"} :
            \/ f = "u" /\ m.user_id # "u1"
            \/ f = "ch" /\ m.channel_id # "c1"
            \/ f = "cr" /\ m.created_at # T0}) <= 1}
    \cup {Message("m2", "u2", "c1", co, T0, T0, rs) :
                co \in Contents, rs \in {{}, {Reaction("s1", "u1", 1)}}}

\* the batches over S: at most MaxBatch messages, no id twice
Batches(S) ==
    UNION {{{f[i] : i \in I} : f \in {g \in [I -> S] : \A i \in I : g[i].id = i}} :
            I \in {J \in SUBSET MsgIds : Cardinality(J) <= MaxBatch}}

RepoInit ==
    /\ InitStore
    /\ call = [op |-> "init"]
    /\ up_messages = {}
    /\ crawler = [pc |-> "off"]
    /\ trace = [result |-> "off"]
    /\ svc = <<>>
    /\ io = IoIdle

RepoSave(m) ==
    /\ save(m)
    /\ call' = [op |-> "save", msgs |-> {m}, before |-> reactions]
    /\ UNCHANGED <<read_messages, users, user_tokens, now, sysVars>>

RepoSaveBatch(ms) ==
    /\ save_batch(ms)
    /\ call' = [op |-> "save_batch", msgs |-> ms, before |-> reactions]
    /\ UNCHANGED <<read_messages, users, user_tokens, now, sysVars>>

RepoRemoveReaction(id, s, u) ==
    /\ remove_reaction(id, s, u)
    /\ call' = [op |-> "remove_reaction", message_id |-> id, stamp_id |-> s,
                 user_id |-> u, before |-> reactions]
    /\ UNCHANGED <<read_messages, users, user_tokens, now, sysVars>>

RepoNext ==
    \/ \E m \in RepoInputs : RepoSave(m)
    \/ \E ms \in Batches(RepoInputs) : RepoSaveBatch(ms)
    \/ \E id \in MsgIds, s \in Stamps, u \in Users : RepoRemoveReaction(id, s, u)

SpecRepo == RepoInit /\ [][RepoNext]_vars

----------------------------------------------------------------------------
(* SpecRec: the timeline service over a store that messages, reactions and *)
(* read marks come into.                                                   *)

\* the messages that come into the store.  m1: either author, either
\* channel, recent or older than the 7-day or the 30-day window, reacted to
\* by any of the users; m2: recent, either author, either channel
TimelineInputs ==
    {Message("m1", u, ch, "old", cr, cr, rs) :
        u \in Users, ch \in Channels,
        cr \in {T0, T0 - Days(TopWindowDays + 1), T0 - Days(AllowlistWindowDays + 1)},
        rs \in {x \in ReactionSets : \A r \in x : r.stamp_count = 1}}
    \cup {Message("m2", u, ch, "old", T0 - SleepSecs, T0 - SleepSecs, rs) :
        u \in Users, ch \in Channels,
        rs \in {{}, {Reaction("s1", "u1", 1)}}}

\* the slices of message ids a client may send: empty, with repeats, any order
IdLists == UNION {[1..n -> MsgIds] : n \in 0..MaxBatch}

\* a message and its reactions come into the store (crawler, add_message_stamp)
RecIngest(m) ==
    /\ save(m)
    /\ call' = [op |-> "save"]
    /\ UNCHANGED <<read_messages, users, user_tokens, now, sysVars>>

\* TimelineServiceImpl::mark_messages_as_read
RecMarkRead(u, ids) ==
    /\ mark_messages_as_read(u, ids)
    /\ call' = [op |-> "mark_messages_as_read"]
    /\ UNCHANGED <<messages, reactions, users, user_tokens, now, sysVars>>

RecRecommend(u, db) ==
    /\ get_recommended_messages(u, db)
    /\ UNCHANGED <<messages, reactions, read_messages, users, user_tokens, now, sysVars>>

RecNext ==
    \/ \E m \in TimelineInputs : RecIngest(m)
    \/ \E u \in Users, ids \in IdLists : RecMarkRead(u, ids)
    \/ \E u \in Users : RecRecommend(u, DbUp)

SpecRec == RepoInit /\ [][RecNext]_vars

----------------------------------------------------------------------------
(* SpecFail: the timeline service over a database whose queries may fail.  *)

\* what the seven queries answer with: all of them Ok, or one or two of them
\* an Err of RepositoryError
DbOutcomes ==
    {db \in [DOMAIN Queries -> {"Ok", "Database", "Serialization"}] :
        Cardinality({q \in DOMAIN Queries : db[q] # "Ok"}) <= 2}

\* the messages that come into the store: m1 of u2, stamped by u1 or not,
\* and m2 of u1
FailInputs ==
    {Message("m1", "u2", "c1", "old", T0, T0, rs) : rs \in {{}, {Reaction("s1", "u1", 1)}}}
    \cup {Message("m2", "u1", "c1", "old", T0 - SleepSecs, T0 - SleepSecs, {})}

FailNext ==
    \/ \E m \in FailInputs : RecIngest(m)
    \/ \E u \in Users, db \in DbOutcomes : RecRecommend(u, db)

SpecFail == RepoInit /\ [][FailNext]_vars

----------------------------------------------------------------------------
(* traQ, as the TraqClient sees it: crates/infra/src/traq_client.rs *)

dbVars == <<messages, reactions, read_messages, users, user_tokens, stamps>>

\* search_messages(after = since): the hits traQ may answer with.  Whether
\* traQ's bound is inclusive is traQ's matter: both answers are possible
fetch_messages_since(since) ==
    {{m \in up_messages : m.created_at >= since},
     {m \in up_messages : m.created_at > since}}

\* get_message(message_id): the message if traQ holds it (else an error)
get_message(message_id) == {m \in up_messages : m.id = message_id}

\* who posts the messages of the model
Author(id) == IF id = "m1" THEN "u2" ELSE "u1"

\* someone posts a message on traQ
UpPost(id) ==
    /\ \A m \in up_messages : m.id # id
    /\ up_messages' = up_messages \cup {Message(id, Author(id), "c1", "old", now, now, {})}
    /\ UNCHANGED <<dbVars, now, call, crawler, trace, svc, io>>

\* its author edits a message on traQ
UpEdit(id) ==
    \E m \in up_messages :
        /\ m.id = id
        /\ m.content = "old"
        /\ up_messages' = (up_messages \ {m})
                \cup {[m EXCEPT !.content = "new", !.updated_at = now]}
        /\ UNCHANGED <<dbVars, now, call, crawler, trace, svc, io>>

\* traQ answers with another channel_id for a message than it did before
UpMove(id) ==
    \E m \in up_messages :
        /\ m.id = id
        /\ m.channel_id = "c1"
        /\ up_messages' = (up_messages \ {m}) \cup {[m EXCEPT !.channel_id = "c2"]}
        /\ UNCHANGED <<dbVars, now, call, crawler, trace, svc, io>>

\* a user puts a stamp on a message with a traQ client of their own
UpStamp(id, u) ==
    \E m \in up_messages :
        /\ m.id = id
        /\ \A r \in m.reactions : r.user_id # u
        /\ up_messages' = (up_messages \ {m})
                \cup {[m EXCEPT !.reactions = @ \cup {Reaction("s1", u, 1)}]}
        /\ UNCHANGED <<dbVars, now, call, crawler, trace, svc, io>>

\* the OAuth callback stores the token of a user: save_token
Auth(u) ==
    /\ u \notin user_tokens
    /\ user_tokens' = user_tokens \cup {u}
    /\ UNCHANGED <<messages, reactions, read_messages, users, stamps, now, call,
                   up_messages, crawler, trace, svc, io>>

----------------------------------------------------------------------------
(* The crawler: crates/domain/src/crawler.rs *)

FallbackDays == 1

\* a plausible slip: a token is returned whether or not one is stored
find_random_valid_token_Any == Users

\* find_random_valid_token: the tokens it may return; none when there is no row
find_random_valid_token == user_tokens

\* a plausible slip: every candidate is due
should_refresh_Always(created_at, last_crawled_at, t) == TRUE

\* the refresh interval of a message by its age
should_refresh(created_at, last_crawled_at, t) ==
    LET age == t - created_at
        interval == IF age < Hours(RecentAgeHours) THEN Minutes(RecentIntervalMinutes)
                    ELSE IF age < Hours(MediumAgeHours) THEN Minutes(MediumIntervalMinutes)
                    ELSE Minutes(OldIntervalMinutes)
    IN  t - last_crawled_at >= interval

\* a plausible slip: every refreshed message counts as changed
refresh_changed_Always(existing, new) == TRUE

\* existing_message != new_message
refresh_changed(existing, new) == ~MessageEq(existing, new)

\* a plausible slip: the loop over the candidates is left while some remain
refresh_done_Early(todo) == TRUE

\* refresh_messages, lines 75 and 107: the loop is over, the list is returned
refresh_done(todo) == todo = {}

\* a plausible slip: a failing get_message ends the tick
get_failed_Abort(cr, c) == [cr EXCEPT !.pc = "sleep", !.todo = {}]

\* refresh_messages, lines 101-103: the failure is logged, the loop goes on
get_failed(cr, c) == [cr EXCEPT !.todo = @ \ {c}]

\* the notifier is told of one message
notify_message_updated(log, message) == Append(log, message)

\* socket.join("message:<id>")
join(rooms, c, id) == rooms \cup {<<c, id>>}

\* a plausible slip: the socket leaves every room
leave_All(rooms, c, id) == {p \in rooms : p[1] # c}

\* socket.leave("message:<id>")
leave(rooms, c, id) == rooms \ {<<c, id>>}

\* the sockets in the room "message:<id>"
Room(s, id) == {c \in Clients : <<c, id>> \in s.rooms}

\* io.to(room).emit(..).await: the answer and the sockets the event went out
\* to.  Ok: every socket of the room; Err: the event or a socket of the room
\* failed, so not every socket of the room got it
emit(s, id) ==
    {<<"Ok", Room(s, id)>>}
    \cup {<<"Err", got>> : got \in {g \in SUBSET Room(s, id) : g # Room(s, id) \/ g = {}}}

\* the event is with the sockets it went out to
Delivered(s, id, got) ==
    [s EXCEPT !.inbox = [c \in Clients |->
                            IF c \in got THEN [@[c] EXCEPT ![id] = @ + 1] ELSE @[c]]]

\* a plausible slip: the Err of emit is handed to the caller
notify_returns_Propagate(result) == result

\* SocketNotifier::notify_message_updated, lines 96-108: an Err of emit is
\* logged; the method returns () either way
notify_returns(result) == "Ok"

ZeroPerId == [id \in MsgIds |-> 0]
NonePerId == [id \in MsgIds |-> {}]

\* the crawler between two ticks
CrawlerIdle ==
    [pc |-> "crawl", last_fetched_at |-> 0, batch |-> {}, todo |-> {}, now |-> 0,
     cur |-> "", new |-> {}, existing |-> {}, refreshed |-> <<>>]

\* the log of a tick that has not done anything yet
TraceIdle ==
    [result |-> "running", prev |-> "none", tokens |-> "unread", start |-> <<>>,
     searches |-> 0, hits |-> {}, batches |-> 0, due |-> {},
     reads |-> ZeroPerId, fetched |-> NonePerId, existing |-> NonePerId,
     saves |-> ZeroPerId, notified |-> <<>>, emits |-> <<>>, error |-> <<"none", "">>]


\* a plausible slip: run() returns when crawl() has failed
run_after_Propagate(result) == IF result = "Err" THEN "stopped" ELSE "sleep"

\* run(), lines 31-35: whatever crawl() returned, an error is logged at most
\* and the sleep comes next
run_after(result) == "sleep"

\* whether user_tokens holds a row, for the log of the tick
TokenRows == IF user_tokens = {} THEN "none" ELSE "some"

\* crawl(), lines 40-45: the high-water mark, or a day ago on an empty store
CrawlLatest ==
    /\ crawler.pc = "crawl"
    /\ crawler' = [crawler EXCEPT
            !.pc = "token",
            !.last_fetched_at =
                IF find_latest_message_time = {} THEN now - Days(FallbackDays)
                ELSE CHOOSE t \in find_latest_message_time : TRUE]
    /\ trace' = [TraceIdle EXCEPT !.start = <<messages, reactions>>, !.prev = trace.prev]
    /\ UNCHANGED <<dbVars, now, call, up_messages, svc, io>>

\* crawl(), lines 46-53: without a token the tick ends here, with Ok
CrawlToken ==
    /\ crawler.pc = "token"
    /\ IF find_random_valid_token = {}
       THEN /\ crawler' = [crawler EXCEPT !.pc = run_after("Ok")]
            /\ trace' = [trace EXCEPT !.tokens = TokenRows, !.result = "Ok"]
       ELSE /\ crawler' = [crawler EXCEPT !.pc = "fetch"]
            /\ trace' = [trace EXCEPT !.tokens = TokenRows]
    /\ UNCHANGED <<dbVars, now, call, up_messages, svc, io>>

\* crawl(), lines 54-57: the search, which may fail; the error ends the tick
CrawlFetch ==
    /\ crawler.pc = "fetch"
    /\ \/ \E hits \in fetch_messages_since(crawler.last_fetched_at) :
            /\ crawler' = [crawler EXCEPT !.pc = "save_batch", !.batch = hits]
            /\ trace' = [trace EXCEPT !.searches = @ + 1, !.hits = hits]
       \/ /\ crawler' = [crawler EXCEPT !.pc = run_after("Err")]
          /\ trace' = [trace EXCEPT !.searches = @ + 1, !.result = "Err"]
    /\ UNCHANGED <<dbVars, now, call, up_messages, svc, io>>

\* crawl(), line 59
CrawlSaveBatch ==
    /\ crawler.pc = "save_batch"
    /\ save_batch(crawler.batch)
    /\ crawler' = [crawler EXCEPT !.pc = "candidates", !.batch = {}]
    /\ trace' = [trace EXCEPT !.batches = @ + 1]
    /\ UNCHANGED <<read_messages, users, user_tokens, stamps, now, call, up_messages, svc, io>>

\* refresh_messages, lines 71-78: the candidates, the clock, and the
\* candidates that should_refresh lets through
RefreshCandidates ==
    /\ crawler.pc = "candidates"
    /\ LET todo == {c \in find_sync_candidates : should_refresh(c[2], c[3], now)}
       IN  /\ crawler' = [crawler EXCEPT !.pc = "loop", !.todo = todo, !.now = now]
           /\ trace' = [trace EXCEPT !.due = {c[1] : c \in todo}]
    /\ UNCHANGED <<dbVars, now, call, up_messages, svc, io>>

\* refresh_messages, lines 80-81 and 101-103: get_message for a candidate; a
\* failure is logged and the loop goes on
RefreshGet(c) ==
    /\ crawler.pc = "loop"
    /\ c \in crawler.todo
    /\ \/ \E m \in get_message(c[1]) :
            /\ crawler' = [crawler EXCEPT !.pc = "find", !.todo = @ \ {c},
                                          !.cur = c[1], !.new = {m}]
            /\ trace' = [trace EXCEPT !.reads[c[1]] = @ + 1, !.fetched[c[1]] = {m}]
       \/ /\ crawler' = get_failed(crawler, c)
          /\ trace' = [trace EXCEPT !.reads[c[1]] = @ + 1]
    /\ UNCHANGED <<dbVars, now, call, up_messages, svc, io>>

\* refresh_messages, lines 82-88: the stored copy; NoMessageForId without one
RefreshFind ==
    /\ crawler.pc = "find"
    /\ IF find_by_id(crawler.cur) = {}
       THEN /\ crawler' = [CrawlerIdle EXCEPT !.pc = run_after("Err")]
            /\ trace' = [trace EXCEPT !.result = "Err",
                                      !.error = <<"NoMessageForId", crawler.cur>>]
       ELSE /\ crawler' = [crawler EXCEPT !.pc = "save", !.existing = find_by_id(crawler.cur)]
            /\ trace' = [trace EXCEPT !.existing[crawler.cur] = find_by_id(crawler.cur)]
    /\ UNCHANGED <<dbVars, now, call, up_messages, svc, io>>

\* refresh_messages, lines 90-99: always save; keep the message if it changed
RefreshSave ==
    /\ crawler.pc = "save"
    /\ \E new \in crawler.new, existing \in crawler.existing :
        /\ save(new)
        /\ crawler' = [crawler EXCEPT
                !.pc = "loop", !.cur = "", !.new = {}, !.existing = {},
                !.refreshed = IF refresh_changed(existing, new) THEN Append(@, new) ELSE @]
        /\ trace' = [trace EXCEPT !.saves[new.id] = @ + 1]
    /\ UNCHANGED <<read_messages, users, user_tokens, stamps, now, call, up_messages, svc, io>>

\* crawl(), lines 63-65: one notification, whatever the emit answers
CrawlNotify ==
    /\ crawler.pc = "loop"
    /\ refresh_done(crawler.todo)
    /\ crawler.refreshed # <<>>
    /\ \E o \in emit(io, Head(crawler.refreshed).id) :
        /\ io' = Delivered(io, Head(crawler.refreshed).id, o[2])
        /\ trace' = [trace EXCEPT
                !.notified = notify_message_updated(@, Head(crawler.refreshed)),
                !.emits = Append(@, o[1]),
                !.result = IF notify_returns(o[1]) = "Err" THEN "Err" ELSE @]
        /\ crawler' = IF notify_returns(o[1]) = "Err"
                      THEN [CrawlerIdle EXCEPT !.pc = run_after("Err")]
                      ELSE [crawler EXCEPT !.refreshed = Tail(@)]
    /\ UNCHANGED <<dbVars, now, call, up_messages, svc>>

\* crawl(), line 67
CrawlReturn ==
    /\ crawler.pc = "loop"
    /\ refresh_done(crawler.todo)
    /\ crawler.refreshed = <<>>
    /\ crawler' = [CrawlerIdle EXCEPT !.pc = run_after("Ok")]
    /\ trace' = [trace EXCEPT !.result = "Ok"]
    /\ UNCHANGED <<dbVars, now, call, up_messages, svc, io>>

\* run(), line 35: the only place where the model's clock moves
Sleep ==
    /\ crawler.pc = "sleep"
    /\ now < T0 + MaxTicks * SleepSecs
    /\ now' = now + SleepSecs
    /\ crawler' = CrawlerIdle
    /\ trace' = [TraceIdle EXCEPT !.prev = trace.result]
    /\ UNCHANGED <<dbVars, call, up_messages, svc, io>>

crawl ==
    \/ CrawlLatest
    \/ CrawlToken
    \/ CrawlFetch
    \/ CrawlSaveBatch
    \/ RefreshCandidates
    \/ \E c \in crawler.todo : RefreshGet(c)
    \/ RefreshFind
    \/ RefreshSave
    \/ CrawlNotify
    \/ CrawlReturn

\* a repository call of the tick fails with RepositoryError::Database: the
\* `?` of crawl() (lines 44, 46, 59, 61) and of refresh_messages (lines 71,
\* 82, 91) hands the error to run()
CrawlFail ==
    /\ crawler.pc \in {"crawl", "token", "save_batch", "candidates", "find", "save"}
    /\ crawler' = [CrawlerIdle EXCEPT !.pc = run_after("Err")]
    /\ trace' = [trace EXCEPT !.result = "Err"]
    /\ UNCHANGED <<dbVars, now, call, up_messages, svc, io>>

----------------------------------------------------------------------------
(* SpecCrawl: the crawler task over an empty store, and traQ around it. *)

\* the messages traQ lets be edited, moved and stamped from outside
Mutable == {"m1"}

CrawlInit ==
    /\ InitStore
    /\ call = [op |-> "init"]
    /\ up_messages = {}
    /\ crawler = CrawlerIdle
    /\ trace = TraceIdle
    /\ svc = <<>>
    /\ io = IoIdle

CrawlNext ==
    \/ crawl
    \/ Sleep
    \/ \E id \in MsgIds : UpPost(id)
    \/ \E id \in MsgIds : UpEdit(id)
    \/ \E id \in Mutable : UpMove(id)
    \/ \E id \in Mutable : UpStamp(id, "u1")
    \/ Auth("u1")

SpecCrawl == CrawlInit /\ [][CrawlNext]_vars

----------------------------------------------------------------------------
(* SpecGone: the crawler over a database that a hand other than the        *)
(* program's takes rows out of.                                            *)

\* a row of messages leaves the table, with its reactions or without them.
\* Nothing in the program deletes a message: this is an operator at the
\* database, the case the None arm of refresh_messages is written for
RowGone(id) ==
    /\ \E r \in messages : r.id = id
    /\ messages' = {r \in messages : r.id # id}
    /\ \E cascade \in BOOLEAN :
        reactions' = IF cascade THEN {r \in reactions : r.message_id # id} ELSE reactions
    /\ UNCHANGED <<read_messages, users, user_tokens, stamps, now, call, up_messages,
                   crawler, trace, svc, io>>

GoneNext ==
    \/ crawl
    \/ Sleep
    \/ \E id \in MsgIds : UpPost(id)
    \/ UpEdit("m1")
    \/ \E id \in MsgIds : RowGone(id)
    \/ Auth("u1")

SpecGone == CrawlInit /\ [][GoneNext]_vars

----------------------------------------------------------------------------
(* SpecWindow: the crawler over a store of messages about a day old, which *)
(* it has crawled two hours before.                                        *)

\* the ages of the stored messages at T0: an hour, and around the 24 hours,
\* a tick or two before them, on them and past them
WindowAges ==
    {Hours(1), Hours(SyncWindowHours) - 2 * SleepSecs, Hours(SyncWindowHours) - SleepSecs,
     Hours(SyncWindowHours) - Seconds(1), Hours(SyncWindowHours),
     Hours(SyncWindowHours) + Seconds(1)}

WindowInit ==
    /\ \E a1 \in WindowAges, a2 \in WindowAges :
        LET stored == {Message("m1", Author("m1"), "c1", "old", T0 - a1, T0 - a1, {}),
                       Message("m2", Author("m2"), "c1", "old", T0 - a2, T0 - a2, {})}
        IN  /\ messages = UpsertMessages({}, stored, T0 - Hours(2))
            /\ up_messages = stored
    /\ reactions = {}
    /\ read_messages = {}
    /\ users = {}
    /\ user_tokens = {"u1"}
    /\ stamps = {}
    /\ now = T0
    /\ call = [op |-> "init"]
    /\ crawler = CrawlerIdle
    /\ trace = TraceIdle
    /\ svc = <<>>
    /\ io = IoIdle

WindowNext ==
    \/ crawl
    \/ Sleep
    \/ UpEdit("m1")

SpecWindow == WindowInit /\ [][WindowNext]_vars

----------------------------------------------------------------------------
(* SpecLoop: the crawler over one message of traQ, with a database that    *)
(* may fail and a runtime that keeps polling the crawler task.             *)

LoopNext ==
    \/ crawl
    \/ CrawlFail
    \/ Sleep
    \/ \E id \in MsgIds : UpPost(id)
    \/ UpEdit("m1")
    \/ Auth("u1")

SpecLoop == CrawlInit /\ [][LoopNext]_vars /\ WF_vars(crawl \/ CrawlFail \/ Sleep)

----------------------------------------------------------------------------
(* The traQ service: crates/domain/src/service.rs, TraqServiceImpl.  Its   *)
(* invocations run as tasks of their own; every await is a step.           *)

\* the invocations that can be in flight at once
Slots == {"a", "b"}

User(id, handle, display_name) == [id |-> id, handle |-> handle, display_name |-> display_name]
Stamp(id, name) == [id |-> id, name |-> name]

\* what traQ may answer to get_user and get_stamp: display names and stamp
\* names change over time, the handle of a user does not
get_user(user_id) == {User(user_id, user_id, d) : d \in {"Ann", "Bob"}}
get_stamp(stamp_id) == {Stamp(stamp_id, n) : n \in {"ok", "yes"}}

\* what traQ may answer to get_user_icon and get_stamp_image: the bytes and
\* their content type
get_image(id) == {[id |-> id, content_type |-> "image/png"]}

\* what traQ may answer to get_stamps: no stamp yet, or all of them
get_stamps == {{}} \cup {{Stamp(id, n) : id \in Stamps} : n \in {"ok", "yes"}}

\* the names to search stamps by
Patterns == {"", "e", "ok"}

\* str::contains, on the stamp names and the patterns of the model
contains(name, pattern) ==
    <<name, pattern>> \in {<<"ok", "">>, <<"yes", "">>, <<"yes", "e">>, <<"ok", "ok">>}

\* a plausible slip: the lookup misses although the row is there
user_find_by_id_None(id) == {}

\* UserRepository::find_by_id
user_find_by_id(id) == {x \in users : x.id = id}

\* StampRepository::find_by_id
stamp_find_by_id(id) == {x \in stamps : x.id = id}

\* INSERT INTO users ... ON DUPLICATE KEY UPDATE display_name
user_save(user) ==
    users' = IF \E x \in users : x.id = user.id
             THEN {IF x.id = user.id THEN [x EXCEPT !.display_name = user.display_name]
                   ELSE x : x \in users}
             ELSE users \cup {user}

\* INSERT INTO stamps ... ON DUPLICATE KEY UPDATE name
stamp_save(stamp) ==
    stamps' = {x \in stamps : x.id # stamp.id} \cup {stamp}

\* INSERT INTO stamps ... VALUES ... ON DUPLICATE KEY UPDATE name; nothing on
\* an empty slice
stamp_save_batch(list) ==
    stamps' = {x \in stamps : \A y \in list : y.id # x.id} \cup list

\* find_token_by_user_id
find_token_by_user_id(user_id) == {t \in user_tokens : t = user_id}

\* a plausible slip: one error for every operation that finds no token
no_token_error_OfUser(op, user_id) == <<"NoTokenForUser", user_id>>

\* the DomainError an operation returns when the token lookup finds nothing
no_token_error(op, user_id) ==
    CASE op = "get_user_by_id" -> <<"NoTokenForUserFetch", "">>
      [] op = "get_user_icon" -> <<"NoTokenForUserIcon", "">>
      [] op = "get_stamp_by_id" -> <<"NoTokenForStampFetch", "">>
      [] op = "get_stamp_image" -> <<"NoTokenForStampImage", "">>
      [] op \in {"get_stamps", "search_stamps"} -> <<"NoTokenForStampsList", "">>
      [] op \in {"add_message_stamp", "remove_message_stamp"} -> <<"NoTokenForUser", user_id>>

\* an invocation slot that is free
InvIdle ==
    [op |-> "idle", pc |-> "idle", user_id |-> "", id |-> "", stamp_id |-> "", count |-> 0,
     cache |-> "unread", seen |-> {}, tokens |-> "unread", calls |-> 0, fetched |-> {},
     saves |-> 0, stored |-> {}, ret |-> {}, result |-> "running", error |-> <<"none", "">>]

SvcIdle == [inv |-> [k \in Slots |-> InvIdle], removed |-> {}, started |-> 0]

Free(k) == svc.inv[k].pc \in {"idle", "done"}

\* a handler calls get_user_by_id(id), get_stamp_by_id(id), get_user_icon(id),
\* get_stamp_image(id), get_stamps() or search_stamps(name), name in id; the
\* first two start with a lookup in the store, the others with the token
ReadStart(k, op, id) ==
    /\ Free(k)
    /\ svc' = [svc EXCEPT !.inv[k] =
            [InvIdle EXCEPT !.op = op, !.id = id,
                            !.pc = IF op \in {"get_user_by_id", "get_stamp_by_id"}
                                   THEN "find" ELSE "token"]]
    /\ UNCHANGED <<dbVars, now, call, up_messages, crawler, trace, io>>

\* lines 176-177, 205-206: the lookup in the store; a hit is returned
ReadFind(k) ==
    LET i == svc.inv[k]
        rows == IF i.op = "get_user_by_id" THEN users ELSE stamps
        found == IF i.op = "get_user_by_id" THEN user_find_by_id(i.id)
                 ELSE stamp_find_by_id(i.id)
        seen == {x \in rows : x.id = i.id}
        cache == IF seen # {} THEN "hit" ELSE "miss"
    IN  /\ i.pc = "find"
        /\ i.op \in {"get_user_by_id", "get_stamp_by_id"}
        /\ svc' = [svc EXCEPT !.inv[k] =
                IF found # {}
                THEN [i EXCEPT !.pc = "done", !.cache = cache, !.seen = seen,
                               !.ret = found, !.result = "Ok"]
                ELSE [i EXCEPT !.pc = "token", !.cache = cache, !.seen = seen]]
        /\ UNCHANGED <<dbVars, now, call, up_messages, crawler, trace, io>>

\* lines 179-184, 194-199, 208-213, 223-228, 234-239: a token, or the
\* NoToken error of the operation
ReadToken(k) ==
    LET i == svc.inv[k]
    IN  /\ i.pc = "token"
        /\ i.op \in {"get_user_by_id", "get_stamp_by_id", "get_user_icon",
                     "get_stamp_image", "get_stamps", "search_stamps"}
        /\ svc' = [svc EXCEPT !.inv[k] =
                IF find_random_valid_token = {}
                THEN [i EXCEPT !.pc = "done", !.tokens = TokenRows, !.result = "Err",
                               !.error = no_token_error(i.op, i.user_id)]
                ELSE [i EXCEPT !.pc = "get", !.tokens = TokenRows]]
        /\ UNCHANGED <<dbVars, now, call, up_messages, crawler, trace, io>>

\* lines 185, 200-201, 214, 229-230, 240: the call to traQ, which may fail;
\* an icon or an image is returned as it is
ReadFetch(k) ==
    LET i == svc.inv[k]
        answers == CASE i.op = "get_user_by_id" -> {{x} : x \in get_user(i.id)}
                     [] i.op = "get_stamp_by_id" -> {{x} : x \in get_stamp(i.id)}
                     [] i.op \in {"get_user_icon", "get_stamp_image"} ->
                            {{x} : x \in get_image(i.id)}
                     [] i.op \in {"get_stamps", "search_stamps"} -> get_stamps
    IN  /\ i.pc = "get"
        /\ i.op \in {"get_user_by_id", "get_stamp_by_id", "get_user_icon",
                     "get_stamp_image", "get_stamps", "search_stamps"}
        /\ \/ \E x \in answers :
                svc' = [svc EXCEPT !.inv[k] =
                    IF i.op \in {"get_user_icon", "get_stamp_image"}
                    THEN [i EXCEPT !.pc = "done", !.calls = @ + 1, !.fetched = x,
                                   !.ret = x, !.result = "Ok"]
                    ELSE [i EXCEPT !.pc = "save", !.calls = @ + 1, !.fetched = x]]
           \/ svc' = [svc EXCEPT !.inv[k] =
                    [i EXCEPT !.pc = "done", !.calls = @ + 1, !.result = "Err"]]
        /\ UNCHANGED <<dbVars, now, call, up_messages, crawler, trace, io>>

\* lines 186-190, 215-219: the fetched entity is saved and returned; lines
\* 241-242, 246-251: the fetched stamps are saved, and returned, those that
\* search_stamps filters out left aside
ReadSave(k) ==
    LET i == svc.inv[k]
    IN  /\ i.pc = "save"
        /\ i.op \in {"get_user_by_id", "get_stamp_by_id", "get_stamps", "search_stamps"}
        /\ IF i.op \in {"get_stamps", "search_stamps"}
           THEN /\ stamp_save_batch(i.fetched)
                /\ UNCHANGED users
                /\ svc' = [svc EXCEPT !.inv[k] =
                        [i EXCEPT !.pc = "done", !.saves = @ + 1, !.result = "Ok",
                                  !.ret = IF i.op = "search_stamps"
                                          THEN {x \in i.fetched : contains(x.name, i.id)}
                                          ELSE i.fetched,
                                  !.stored = {y \in stamps' : \E x \in i.fetched : x.id = y.id}]]
           ELSE \E x \in i.fetched :
            /\ IF i.op = "get_user_by_id"
               THEN user_save(x) /\ UNCHANGED stamps
               ELSE stamp_save(x) /\ UNCHANGED users
            /\ svc' = [svc EXCEPT !.inv[k] =
                    [i EXCEPT !.pc = "done", !.saves = @ + 1, !.ret = {x}, !.result = "Ok",
                              !.stored = IF i.op = "get_user_by_id"
                                         THEN {y \in users' : y.id = i.id}
                                         ELSE {y \in stamps' : y.id = i.id}]]
        /\ UNCHANGED <<messages, reactions, read_messages, user_tokens, now, call,
                       up_messages, crawler, trace, io>>

----------------------------------------------------------------------------
(* SpecRead: get_user_by_id and get_stamp_by_id, two invocations at a time. *)

ReadInit ==
    /\ InitStore
    /\ call = [op |-> "init"]
    /\ up_messages = {}
    /\ crawler = [pc |-> "off"]
    /\ trace = [result |-> "off"]
    /\ svc = SvcIdle
    /\ io = IoIdle

ReadNext ==
    \/ \E k \in Slots, id \in Users : ReadStart(k, "get_user_by_id", id)
    \/ \E k \in Slots, id \in Stamps : ReadStart(k, "get_stamp_by_id", id)
    \/ \E k \in Slots : ReadFind(k)
    \/ \E k \in Slots : ReadToken(k)
    \/ \E k \in Slots : ReadFetch(k)
    \/ \E k \in Slots : ReadSave(k)
    \/ Auth("u1")

SpecRead == ReadInit /\ [][ReadNext]_vars

----------------------------------------------------------------------------
(* SpecUser: the user repository called directly, as its tests do. *)

\* the users given to save: two handles and two display names for each id
UserInputs ==
    {User(id, h, dn) : id \in Users, h \in {"alice", "bob"}, dn \in {"Ann", "Bob"}}

UserSave(user) ==
    /\ user_save(user)
    /\ call' = [op |-> "save", user |-> user, before |-> users]
    /\ UNCHANGED <<messages, reactions, read_messages, user_tokens, stamps, now, sysVars>>

UserNext == \E user \in UserInputs : UserSave(user)

SpecUser == RepoInit /\ [][UserNext]_vars

----------------------------------------------------------------------------
(* add_message_stamp and remove_message_stamp of the traQ service. *)

\* traQ after POST /messages/{m}/stamps/{s} by u: a new stamp of the user,
\* or count more of one they have put already
up_add_stamp(m, s, u, count) ==
    [m EXCEPT !.reactions =
        IF \E r \in @ : r.stamp_id = s /\ r.user_id = u
        THEN {IF r.stamp_id = s /\ r.user_id = u
              THEN Reaction(s, u, r.stamp_count + count) ELSE r : r \in @}
        ELSE @ \cup {Reaction(s, u, count)}]

\* traQ after DELETE /messages/{m}/stamps/{s} by u
up_remove_stamp(m, s, u) ==
    [m EXCEPT !.reactions = {r \in @ : ~(r.stamp_id = s /\ r.user_id = u)}]

\* the invocations of add_message_stamp(u, m, s) in flight in other slots
AddInFlight(k, m, s, u) ==
    \E j \in Slots \ {k} :
        /\ svc.inv[j].op = "add_message_stamp"
        /\ svc.inv[j].pc # "done"
        /\ svc.inv[j].id = m /\ svc.inv[j].stamp_id = s /\ svc.inv[j].user_id = u

\* the errors of the traQ client, error.rs lines 17-29
TraqErrors == {"HttpRequest", "ApiError"}

\* a plausible slip: the error of the call to traQ is logged and the
\* operation goes on
traq_failed_GoesOn(i, e) ==
    [i EXCEPT !.pc = IF i.pc = "get" THEN "done"
                     ELSE IF i.op = "add_message_stamp" THEN "get" ELSE "local",
              !.result = IF i.pc = "get" THEN "Err" ELSE @,
              !.error = <<"TraqClient", e>>]

\* the `?` of lines 271, 274 and 298 on a TraqClientError: the operation
\* returns DomainError::TraqClient(e), made by #[from]
traq_failed(i, e) ==
    [i EXCEPT !.pc = "done", !.result = "Err", !.error = <<"TraqClient", e>>]

\* a handler calls add_message_stamp or remove_message_stamp
StampStart(k, op, u, m, s, count) ==
    /\ Free(k)
    /\ svc.started < MaxCalls
    /\ svc' = [svc EXCEPT
            !.started = @ + 1,
            !.inv[k] = [InvIdle EXCEPT !.op = op, !.pc = "token", !.user_id = u,
                                       !.id = m, !.stamp_id = s, !.count = count],
            !.removed = IF op = "add_message_stamp" THEN @ \ {<<m, s, u>>} ELSE @]
    /\ UNCHANGED <<dbVars, now, call, up_messages, crawler, trace, io>>

\* lines 261-266, 288-293: the token of the user, or NoTokenForUser
StampToken(k) ==
    LET i == svc.inv[k]
    IN  /\ i.pc = "token"
        /\ i.op \in {"add_message_stamp", "remove_message_stamp"}
        /\ svc' = [svc EXCEPT !.inv[k] =
                IF find_token_by_user_id(i.user_id) = {}
                THEN [i EXCEPT !.pc = "done", !.tokens = "none", !.result = "Err",
                               !.error = no_token_error(i.op, i.user_id)]
                ELSE [i EXCEPT !.pc = "upstream", !.tokens = "some"]]
        /\ UNCHANGED <<dbVars, now, call, up_messages, crawler, trace, io>>

\* lines 269-271, 296-298: the stamp is put on or taken off at traQ, which
\* may fail
StampUpstream(k) ==
    LET i == svc.inv[k]
    IN  /\ i.pc = "upstream"
        /\ \/ \E m \in up_messages :
                /\ m.id = i.id
                /\ LET after == IF i.op = "add_message_stamp"
                                THEN up_add_stamp(m, i.stamp_id, i.user_id, i.count)
                                ELSE up_remove_stamp(m, i.stamp_id, i.user_id)
                   IN  /\ \A r \in after.reactions : r.stamp_count \in Counts
                       /\ up_messages' = (up_messages \ {m}) \cup {after}
                /\ svc' = [svc EXCEPT !.inv[k] =
                        [i EXCEPT !.calls = @ + 1,
                                  !.pc = IF i.op = "add_message_stamp" THEN "get" ELSE "local"]]
           \/ /\ \E e \in TraqErrors :
                    svc' = [svc EXCEPT !.inv[k] = traq_failed([i EXCEPT !.calls = @ + 1], e)]
              /\ UNCHANGED up_messages
        /\ UNCHANGED <<dbVars, now, call, crawler, trace, io>>

\* add_message_stamp, line 274: the reconciling get_message
AddGet(k) ==
    LET i == svc.inv[k]
    IN  /\ i.pc = "get"
        /\ i.op = "add_message_stamp"
        /\ \/ \E m \in get_message(i.id) :
                svc' = [svc EXCEPT !.inv[k] = [i EXCEPT !.pc = "save", !.fetched = {m}]]
           \/ \E e \in TraqErrors : svc' = [svc EXCEPT !.inv[k] = traq_failed(i, e)]
        /\ UNCHANGED <<dbVars, now, call, up_messages, crawler, trace, io>>

\* add_message_stamp, lines 277-279: the save, and Ok
AddSave(k) ==
    LET i == svc.inv[k]
    IN  /\ i.pc = "save"
        /\ i.op = "add_message_stamp"
        /\ \E m \in i.fetched :
            /\ save(m)
            /\ svc' = [svc EXCEPT !.inv[k] =
                    [i EXCEPT !.pc = "done", !.saves = @ + 1, !.result = "Ok",
                              !.seen = find_by_id(i.id),
                              !.stored = FindIn(messages', reactions', i.id)]]
        /\ UNCHANGED <<read_messages, users, user_tokens, stamps, now, call,
                       up_messages, crawler, trace, io>>

\* remove_message_stamp, lines 303-308: the reaction leaves the store, and Ok
RemoveLocal(k) ==
    LET i == svc.inv[k]
    IN  /\ i.pc = "local"
        /\ i.op = "remove_message_stamp"
        /\ remove_reaction(i.id, i.stamp_id, i.user_id)
        /\ svc' = [svc EXCEPT
                !.inv[k] = [i EXCEPT !.pc = "done", !.result = "Ok",
                                     !.seen = find_by_id(i.id)],
                !.removed = IF AddInFlight(k, i.id, i.stamp_id, i.user_id) THEN @
                            ELSE @ \cup {<<i.id, i.stamp_id, i.user_id>>}]
        /\ UNCHANGED <<read_messages, users, user_tokens, stamps, now, call,
                       up_messages, crawler, trace, io>>

\* a repository call of the operation fails with RepositoryError::Database:
\* find_token_by_user_id (lines 261, 288), save (line 277), whose
\* transaction is rolled back, or remove_reaction (lines 303-306); the `?`
\* returns DomainError::Repository
StampFail(k) ==
    LET i == svc.inv[k]
    IN  /\ i.op \in {"add_message_stamp", "remove_message_stamp"}
        /\ i.pc \in {"token", "save", "local"}
        /\ svc' = [svc EXCEPT !.inv[k] =
                [i EXCEPT !.pc = "done", !.result = "Err",
                          !.error = <<"Repository", "Database">>]]
        /\ UNCHANGED <<dbVars, now, call, up_messages, crawler, trace, io>>

----------------------------------------------------------------------------
(* SpecStamp: one tick of the crawler, and a user who puts a stamp on a    *)
(* message and takes it off through the service, two invocations at a      *)
(* time.  It starts where SpecCrawl gets to when u1 has logged in, m1,     *)
(* stamped by u1, was posted and crawled at T0 and the crawler has slept   *)
(* for a minute: m1 is stored as traQ holds it, and is due for a refresh.  *)

StampedMessage == Message("m1", Author("m1"), "c1", "old", T0, T0, {Reaction("s1", "u1", 1)})

StampInit ==
    /\ messages = UpsertMessages({}, {StampedMessage}, T0)
    /\ reactions = update_reactions({}, {"m1"}, reactions_data({StampedMessage}))
    /\ read_messages = {}
    /\ users = {}
    /\ user_tokens = {"u1"}
    /\ stamps = {}
    /\ now = T0 + Minutes(RecentIntervalMinutes)
    /\ call = [op |-> "init"]
    /\ up_messages = {StampedMessage}
    /\ crawler = CrawlerIdle
    /\ trace = TraceIdle
    /\ svc = SvcIdle
    /\ io = IoIdle

StampNext ==
    \/ crawl
    \/ UpMove("m1")
    \/ \E k \in Slots, op \in {"add_message_stamp", "remove_message_stamp"} :
            StampStart(k, op, "u1", "m1", "s1", 1)
    \/ \E k \in Slots : StampToken(k)
    \/ \E k \in Slots : StampUpstream(k)
    \/ \E k \in Slots : AddGet(k)
    \/ \E k \in Slots : AddSave(k)
    \/ \E k \in Slots : RemoveLocal(k)

SpecStamp == StampInit /\ [][StampNext]_vars

----------------------------------------------------------------------------
(* SpecService: the traQ service on its own, the crawler at rest.  u1 has   *)
(* logged in, u2 has not.  The crawler has stored m1, which carries stamps *)
(* of both users, and has or has not yet stored m2; traQ holds both.  The  *)
(* store of a deployment nobody has logged in to is empty.                 *)

CrawledMessage ==
    Message("m1", Author("m1"), "c1", "old", T0, T0,
            {Reaction("s1", "u1", 1), Reaction("s1", "u2", 1), Reaction("s2", "u1", 1)})

FreshMessage == Message("m2", Author("m2"), "c1", "old", T0, T0, {Reaction("s1", "u1", 1)})

ServiceInit ==
    /\ \E tokens \in {{}, {"u1"}},
          stored \in {{}, {CrawledMessage}, {CrawledMessage, FreshMessage}} :
            /\ tokens = {} => stored = {}
            /\ user_tokens = tokens
            /\ messages = UpsertMessages({}, stored, T0)
            /\ reactions = update_reactions({}, {m.id : m \in stored}, reactions_data(stored))
    /\ read_messages = {}
    /\ users = {}
    /\ stamps = {}
    /\ now = T0 + Minutes(RecentIntervalMinutes)
    /\ call = [op |-> "init"]
    /\ up_messages = {CrawledMessage, FreshMessage}
    /\ crawler = [pc |-> "off"]
    /\ trace = [result |-> "off"]
    /\ svc = SvcIdle
    /\ io = IoIdle

ServiceNext ==
    \/ \E k \in Slots, op \in {"add_message_stamp", "remove_message_stamp"},
          u \in Users, m \in MsgIds : StampStart(k, op, u, m, "s1", 1)
    \/ \E k \in Slots : StampToken(k)
    \/ \E k \in Slots : StampUpstream(k)
    \/ \E k \in Slots : AddGet(k)
    \/ \E k \in Slots : AddSave(k)
    \/ \E k \in Slots : RemoveLocal(k)
    \/ \E k \in Slots : StampFail(k)
    \/ UpStamp("m2", "u2")

SpecService == ServiceInit /\ [][ServiceNext]_vars

----------------------------------------------------------------------------
(* SpecOps: every operation of the traQ service, one invocation at a time, *)
(* from the states SpecService starts in.                                  *)

OpsNext ==
    \/ \E op \in {"add_message_stamp", "remove_message_stamp"}, u \in Users, m \in MsgIds :
            StampStart("a", op, u, m, "s1", 1)
    \/ StampToken("a")
    \/ StampUpstream("a")
    \/ AddGet("a")
    \/ AddSave("a")
    \/ RemoveLocal("a")
    \/ \E op \in {"get_user_by_id", "get_user_icon"}, id \in Users : ReadStart("a", op, id)
    \/ \E op \in {"get_stamp_by_id", "get_stamp_image"}, id \in Stamps : ReadStart("a", op, id)
    \/ ReadStart("a", "get_stamps", "")
    \/ \E name \in Patterns : ReadStart("a", "search_stamps", name)
    \/ ReadFind("a")
    \/ ReadToken("a")
    \/ ReadFetch("a")
    \/ ReadSave("a")
    \/ Auth("u1")

SpecOps == ServiceInit /\ [][OpsNext]_vars

----------------------------------------------------------------------------
(* SpecAged: the crawler, its clock moving, and a user who takes a stamp   *)
(* off a message through the service.  m1, stamped by u1, is an hour old   *)
(* or 24 hours old to the second, and was crawled half an hour ago: it is  *)
(* due for a refresh, and in the second case it leaves the candidate       *)
(* window with the next sleep.                                             *)

AgedInit ==
    /\ \E age \in {Hours(1), Hours(SyncWindowHours)} :
        LET stored == {Message("m1", Author("m1"), "c1", "old", T0 - age, T0 - age,
                               {Reaction("s1", "u1", 1)})}
        IN  /\ messages = UpsertMessages({}, stored, T0 - Minutes(OldIntervalMinutes))
            /\ reactions = update_reactions({}, {"m1"}, reactions_data(stored))
            /\ up_messages = stored
    /\ read_messages = {}
    /\ users = {}
    /\ user_tokens = {"u1"}
    /\ stamps = {}
    /\ now = T0
    /\ call = [op |-> "init"]
    /\ crawler = CrawlerIdle
    /\ trace = TraceIdle
    /\ svc = SvcIdle
    /\ io = IoIdle

AgedNext ==
    \/ crawl
    \/ Sleep
    \/ StampStart("a", "remove_message_stamp", "u1", "m1", "s1", 1)
    \/ StampToken("a")
    \/ StampUpstream("a")
    \/ RemoveLocal("a")

SpecAged == AgedInit /\ [][AgedNext]_vars

----------------------------------------------------------------------------
(* SpecWater: the crawler from an empty store, its clock moving, messages  *)
(* posted on traQ, and u1, logged in, who puts stamps on them through the  *)
(* service, one invocation at a time.                                      *)

WaterInit ==
    /\ messages = {}
    /\ reactions = {}
    /\ read_messages = {}
    /\ users = {}
    /\ user_tokens = {"u1"}
    /\ stamps = {}
    /\ now = T0
    /\ call = [op |-> "init"]
    /\ up_messages = {}
    /\ crawler = CrawlerIdle
    /\ trace = TraceIdle
    /\ svc = SvcIdle
    /\ io = IoIdle

WaterNext ==
    \/ crawl
    \/ Sleep
    \/ \E id \in MsgIds : UpPost(id)
    \/ \E m \in MsgIds : StampStart("a", "add_message_stamp", "u1", m, "s1", 1)
    \/ StampToken("a")
    \/ StampUpstream("a")
    \/ AddGet("a")
    \/ AddSave("a")

SpecWater == WaterInit /\ [][WaterNext]_vars

----------------------------------------------------------------------------
(* SpecMarks: read marks and batches on a store whose clock moves. *)

\* the batches that fill the store: none, m1 without and with a reaction
MarksBatches ==
    {{}, {Message("m1", "u2", "c1", "old", T0, T0, {})},
     {Message("m1", "u2", "c1", "old", T0, T0, {Reaction("s1", "u1", 1)})}}

MarksMarkRead(u, ids) ==
    /\ mark_messages_as_read(u, ids)
    /\ call' = [op |-> "mark_messages_as_read", user_id |-> u, message_ids |-> ids,
                before |-> <<messages, reactions, read_messages>>]
    /\ UNCHANGED <<messages, reactions, users, user_tokens, now, sysVars>>

MarksSaveBatch(ms) ==
    /\ save_batch(ms)
    /\ call' = [op |-> "save_batch", msgs |-> ms,
                before |-> <<messages, reactions, read_messages>>]
    /\ UNCHANGED <<read_messages, users, user_tokens, now, sysVars>>

\* time passes between two calls
MarksTick ==
    /\ now < T0 + MaxTicks * SleepSecs
    /\ now' = now + SleepSecs
    /\ UNCHANGED <<dbVars, call, sysVars>>

MarksNext ==
    \/ \E u \in Users, ids \in IdLists : MarksMarkRead(u, ids)
    \/ \E ms \in MarksBatches : MarksSaveBatch(ms)
    \/ MarksTick

SpecMarks == RepoInit /\ [][MarksNext]_vars

----------------------------------------------------------------------------
(* SpecSocket: the Socket.IO layer: clients subscribe and unsubscribe, the
   notifier is called. *)

handle_subscribe(c, id) ==
    /\ io' = [io EXCEPT !.rooms = join(@, c, id)]
    /\ call' = [op |-> "subscribe", client |-> c, id |-> id, before |-> io]
    /\ UNCHANGED <<dbVars, now, up_messages, crawler, trace, svc>>

handle_unsubscribe(c, id) ==
    /\ io' = [io EXCEPT !.rooms = leave(@, c, id)]
    /\ call' = [op |-> "unsubscribe", client |-> c, id |-> id, before |-> io]
    /\ UNCHANGED <<dbVars, now, up_messages, crawler, trace, svc>>

\* SocketNotifier::notify_message_updated for a message with this id
SocketNotify(id) ==
    /\ \A c \in Clients : io.inbox[c][id] < MaxCalls
    /\ \E o \in emit(io, id) :
        /\ io' = Delivered(io, id, o[2])
        /\ call' = [op |-> "notify_message_updated", id |-> id, emit |-> o[1],
                    result |-> notify_returns(o[1]), before |-> io]
    /\ UNCHANGED <<dbVars, now, up_messages, crawler, trace, svc>>

SocketNext ==
    \/ \E c \in Clients, id \in MsgIds : handle_subscribe(c, id)
    \/ \E c \in Clients, id \in MsgIds : handle_unsubscribe(c, id)
    \/ \E id \in MsgIds : SocketNotify(id)

SpecSocket == RepoInit /\ [][SocketNext]_vars

----------------------------------------------------------------------------
(* SpecMerge: get_recommended_messages over a repository that answers the
   four candidate queries with given lists, as the service's tests do. *)

\* the longest list of the enumerated sources
MaxListLen == 2

\* message ids for the lists: one more than a result may hold
MergeIds ==
    <<"m1", "m2", "m3", "m4", "m5", "m6", "m7", "m8", "m9", "m10", "m11",
     "m12", "m13", "m14", "m15", "m16", "m17", "m18", "m19", "m20", "m21",
     "m22", "m23", "m24", "m25", "m26", "m27", "m28", "m29", "m30", "m31",
     "m32", "m33", "m34", "m35", "m36", "m37", "m38", "m39", "m40", "m41",
     "m42", "m43", "m44", "m45", "m46", "m47", "m48", "m49", "m50", "m51">>

\* a MessageListItem as the mocked queries return it
MergeItem(id) == ListItem(Message(id, "u2", "c1", "old", T0, T0, {}))

\* the items of ids MergeIds[a] .. MergeIds[b], in this order
Run(a, b) == [i \in 1..(b - a + 1) |-> MergeItem(MergeIds[a + i - 1])]

\* every list of at most MaxListLen items over m1, m2, m3, no id twice
ShortLists ==
    UNION {{q \in [1..n -> {MergeItem(MergeIds[k]) : k \in 1..3}] :
                \A i, j \in 1..n : i # j => q[i] # q[j]} : n \in 0..MaxListLen}

\* sources at the limit of the queries, as <<top, auth, chan, sim>>:
\* 4 x 50 candidates over 51 ids; 2 x 50 over 51 ids; 50 and 30 over 51 ids
\* where the 50th and the 51st score are equal
LongSources ==
    {<<Run(1, TimelineLimit), Run(1, TimelineLimit), Run(1, TimelineLimit),
       Run(2, TimelineLimit + 1)>>,
     <<Run(1, TimelineLimit), <<>>, <<>>, Run(2, TimelineLimit + 1)>>,
     <<Run(1, TimelineLimit), <<>>,
       Run(1, 29) \o <<MergeItem(MergeIds[TimelineLimit + 1])>>, <<>>>>}

MergeSources ==
    (ShortLists \X ShortLists \X ShortLists \X ShortLists) \cup LongSources

\* the mocked repository is set up with the four lists
MergeInit ==
    /\ InitStore
    /\ \E src \in MergeSources :
            call = [op |-> "sources", top |-> src[1], auth |-> src[2],
                    chan |-> src[3], sim |-> src[4]]
    /\ up_messages = {}
    /\ crawler = [pc |-> "off"]
    /\ trace = [result |-> "off"]
    /\ svc = <<>>
    /\ io = IoIdle

\* get_recommended_messages from step 5 on, over the lists of the mocks
MergeCall ==
    /\ call.op = "sources"
    /\ \E result \in Merge(call.top, call.auth, call.chan, call.sim) :
            call' = [call EXCEPT !.op = "merge"] @@ [result |-> result]
    /\ UNCHANGED <<dbVars, now, up_messages, crawler, trace, svc, io>>

SpecMerge == MergeInit /\ [][MergeCall]_vars

----------------------------------------------------------------------------
(* SpecJoin: step 4 and step 5 of get_recommended_messages: the four       *)
(* queries run concurrently and finish in any order.                       *)

\* the orders in which the four futures of tokio::join! can complete:
\* order[n] is the position of the future that completes n-th
Orders == {p \in [1..4 -> 1..4] : \A i, j \in 1..4 : i # j => p[i] # p[j]}

\* a plausible slip: the results are taken as they come in (as from a
\* FuturesUnordered) and handed to add_score in that order
join_ByCompletion(results, order) == [n \in 1..4 |-> results[order[n]]]

\* tokio::join!, lines 85-101: returns when the four futures have
\* completed, a tuple of their results in the order they were written in
tokio_join(results, order) == results

\* the lists the four queries answer with
JoinLists ==
    {<<>>, <<MergeItem("m1")>>, <<MergeItem("m2")>>,
     <<MergeItem("m1"), MergeItem("m2")>>, <<MergeItem("m2"), MergeItem("m1")>>}

\* the store is set up so that the queries answer with the four lists, and
\* the scheduler with an order of completion
JoinInit ==
    /\ InitStore
    /\ \E top \in JoinLists, auth \in JoinLists, chan \in JoinLists, sim \in JoinLists,
          order \in Orders :
            call = [op |-> "sources", top |-> top, auth |-> auth, chan |-> chan,
                    sim |-> sim, order |-> order]
    /\ up_messages = {}
    /\ crawler = [pc |-> "off"]
    /\ trace = [result |-> "off"]
    /\ svc = <<>>
    /\ io = IoIdle

\* lines 85-134: the join, the four add_score calls on what it returned, the
\* sort and the cut; score is the content of scored_messages
JoinCall ==
    /\ call.op = "sources"
    /\ LET r == tokio_join(<<call.top, call.auth, call.chan, call.sim>>, call.order)
           ids == {x.id : x \in Range(r[1]) \cup Range(r[2]) \cup Range(r[3]) \cup Range(r[4])}
       IN  \E result \in Merge(r[1], r[2], r[3], r[4]) :
                call' = [call EXCEPT !.op = "merge"]
                        @@ [result |-> result,
                            score |-> [id \in ids |-> Score(id, r[1], r[2], r[3], r[4])]]
    /\ UNCHANGED <<dbVars, now, up_messages, crawler, trace, svc, io>>

SpecJoin == JoinInit /\ [][JoinCall]_vars

----------------------------------------------------------------------------
(* SpecEq: Message's == on messages whose reactions are lists, as the Vec of
   the source; MessageEq above is the same comparison for lists that hold
   no reaction twice, given as sets. *)

\* the reactions of the lists, in the order of #[derive(Ord)] on Reaction:
\* by stamp_id, then user_id, then stamp_count
ReactionOrd ==
    <<Reaction("s1", "u1", 1), Reaction("s1", "u1", 2), Reaction("s1", "u2", 1)>>

\* Vec::sort of a list over ReactionOrd: the entries equal to the first, then
\* those equal to the second, then those equal to the third
sort(q) ==
    SelectSeq(q, LAMBDA x : x = ReactionOrd[1])
    \o SelectSeq(q, LAMBDA x : x = ReactionOrd[2])
    \o SelectSeq(q, LAMBDA x : x = ReactionOrd[3])

\* impl PartialEq for Message: fn eq
eq(self, other) ==
    IF \/ self.id # other.id
       \/ self.user_id # other.user_id
       \/ self.channel_id # other.channel_id
       \/ self.content # other.content
       \/ self.created_at # other.created_at
       \/ self.updated_at # other.updated_at
    THEN FALSE
    ELSE sort(self.reactions) = sort(other.reactions)

\* pairs of messages: the first with the scalar fields fixed, the second
\* differing from it in at most one of them; the reaction lists of both any
\* list of at most MaxListLen entries
EqInit ==
    /\ InitStore
    /\ \E q1, q2 \in UNION {[1..n -> Range(ReactionOrd)] : n \in 0..MaxListLen} :
       \E f \in {"none", "id", "user_id", "channel_id", "content", "created_at", "updated_at"} :
            call = [op |-> "operands",
                    self |-> Message("m1", "u1", "c1", "old", T0, T0, q1),
                    other |-> Message(IF f = "id" THEN "m2" ELSE "m1",
                                      IF f = "user_id" THEN "u2" ELSE "u1",
                                      IF f = "channel_id" THEN "c2" ELSE "c1",
                                      IF f = "content" THEN "new" ELSE "old",
                                      IF f = "created_at" THEN T0 - SleepSecs ELSE T0,
                                      IF f = "updated_at" THEN T0 + SleepSecs ELSE T0, q2)]
    /\ up_messages = {}
    /\ crawler = [pc |-> "off"]
    /\ trace = [result |-> "off"]
    /\ svc = <<>>
    /\ io = IoIdle

\* self == other
EqCall ==
    /\ call.op = "operands"
    /\ call' = [call EXCEPT !.op = "eq"] @@ [result |-> eq(call.self, call.other)]
    /\ UNCHANGED <<dbVars, now, up_messages, crawler, trace, svc, io>>

SpecEq == EqInit /\ [][EqCall]_vars

----------------------------------------------------------------------------
(* SpecRefresh: should_refresh called on its own, as its tests do. *)

\* the ages of the message: around the 3-hour and the 12-hour mark, and off them
RefreshAges ==
    {Seconds(0), Hours(RecentAgeHours) - Minutes(1), Hours(RecentAgeHours) - Seconds(1),
     Hours(RecentAgeHours), Hours(RecentAgeHours) + Seconds(1),
     Hours(MediumAgeHours) - Minutes(1), Hours(MediumAgeHours) - Seconds(1),
     Hours(MediumAgeHours), Hours(MediumAgeHours) + Seconds(1),
     Hours(SyncWindowHours) - Hours(6), Hours(SyncWindowHours)}

\* the times since the last crawl: around each of the three intervals
RefreshDeltas ==
    UNION {{Minutes(i) - Seconds(1), Minutes(i), Minutes(i) + Seconds(1)} :
            i \in {RecentIntervalMinutes, MediumIntervalMinutes, OldIntervalMinutes}}
    \cup {Seconds(0)}

RefreshInit ==
    /\ InitStore
    /\ call = [op |-> "init"]
    /\ up_messages = {}
    /\ crawler = [pc |-> "off"]
    /\ trace = [result |-> "off"]
    /\ svc = <<>>
    /\ io = IoIdle

RefreshCall(age, delta) ==
    /\ call' = [op |-> "should_refresh", created_at |-> now - age,
                last_crawled_at |-> now - delta, now |-> now,
                result |-> should_refresh(now - age, now - delta, now)]
    /\ UNCHANGED <<dbVars, now, up_messages, crawler, trace, svc, io>>

RefreshNext == \E age \in RefreshAges, delta \in RefreshDeltas : RefreshCall(age, delta)

SpecRefresh == RefreshInit /\ [][RefreshNext]_vars

----------------------------------------------------------------------------
(* Claims about the timeline service, under SpecRec. *)

\* C1: every item get_recommended_messages(viewer) returns has a user_id
\* other than the viewer and an id that is not among the viewer's read marks
\* at the time of the candidate queries.
C1_Exclusion ==
    call.op = "get_recommended_messages" =>
        \A i \in DOMAIN call.result :
            /\ call.result[i].user_id # call.viewer
            /\ call.result[i].id \notin call.read

----------------------------------------------------------------------------
(* Claims about the message repository, under SpecRepo. *)

\* C4: after save(m), whatever row with m.id the store held before,
\* find_by_id(m.id) returns a message equal to m: the six scalar fields and
\* the reaction set.
C4_SaveThenFind ==
    call.op = "save" =>
        \A m \in call.msgs : \E f \in find_by_id(m.id) : MessageEq(f, m)

\* C5: after save or save_batch, the stored reactions of every message given
\* are exactly the reactions it carried (none left from before, the counts
\* those given), and the reactions of every other message are as before.
C5_ReactionReplacement ==
    call.op \in {"save", "save_batch"} =>
        /\ \A m \in call.msgs : \A f \in find_by_id(m.id) : f.reactions = m.reactions
        /\ \A m \in call.msgs : find_by_id(m.id) # {}
        /\ \A id \in MsgIds \ {m.id : m \in call.msgs} :
                ReactionsOf(reactions, id) = ReactionsOf(call.before, id)

\* C5's case: a save that drops one stored reaction and changes the count of
\* another, while the other message holds reactions
C5_Witness ==
    /\ call.op = "save"
    /\ \E m \in call.msgs :
        /\ m.id = "m1"
        /\ ReactionsOf(call.before, "m1") = {Reaction("s1", "u1", 1), Reaction("s1", "u2", 1)}
        /\ m.reactions = {Reaction("s1", "u1", 2)}
    /\ ReactionsOf(reactions, "m2") # {}

----------------------------------------------------------------------------
(* Claims about the crawler, under SpecCrawl.  A tick is over when the     *)
(* crawler is at its sleep; trace then holds what the tick did.            *)

TickOver == crawler.pc = "sleep"

\* how often the tick has notified of a message with this id
Notified(id) == Cardinality({i \in DOMAIN trace.notified : trace.notified[i].id = id})

\* C7: when a tick is over, every candidate it refreshed whose copy from
\* get_message differed from the stored copy (in any scalar field or in the
\* reactions) was notified exactly once, with the copy from get_message, and
\* the store holds that copy.
C7_ChangeNotifiedAndStored ==
    TickOver =>
        \A id \in trace.due : \A new \in trace.fetched[id], old \in trace.existing[id] :
            ~MessageEq(old, new) =>
                /\ Notified(id) = 1
                /\ \E i \in DOMAIN trace.notified : trace.notified[i] = new
                /\ \E f \in find_by_id(id) : MessageEq(f, new)

\* C8: when a tick is over, every candidate it refreshed whose copy from
\* get_message equalled the stored copy was saved once all the same, its
\* last_crawled_at is the time of the tick, and it was not notified.
C8_UnchangedSavedNotNotified ==
    TickOver =>
        \A id \in trace.due : \A new \in trace.fetched[id], old \in trace.existing[id] :
            MessageEq(old, new) =>
                /\ trace.saves[id] = 1
                /\ \A r \in messages : r.id = id => r.last_crawled_at = now
                /\ Notified(id) = 0

\* C8's case: a due candidate came back from traQ as it was stored
C8_Witness ==
    /\ TickOver
    /\ \E id \in trace.due : \E new \in trace.fetched[id], old \in trace.existing[id] :
        /\ MessageEq(old, new)
        /\ new.reactions # {}
        /\ trace.saves[id] = 1

\* C9: a tick that finds no token stored ends at once with Ok: no search, no
\* get_message, no save, no save_batch, no notification, and messages and
\* reactions are as the tick found them.
C9_NoTokenNoEffect ==
    trace.tokens = "none" =>
        /\ TickOver
        /\ trace.result = "Ok"
        /\ trace.searches = 0
        /\ trace.reads = ZeroPerId
        /\ trace.saves = ZeroPerId
        /\ trace.batches = 0
        /\ trace.notified = <<>>
        /\ trace.start = <<messages, reactions>>

\* C9's case: a tick without a token while traQ holds messages to fetch
C9_Witness ==
    /\ trace.tokens = "none"
    /\ TickOver
    /\ up_messages # {}

\* C10: when a tick that found the store empty and a token is over with Ok,
\* every hit of its search is stored as it came, find_latest_message_time is
\* the greatest created_at of the hits, and none of the hits was read again
\* with get_message or notified in the tick.
C10_FirstTickStoresOnly ==
    (TickOver /\ trace.result = "Ok" /\ trace.tokens = "some" /\ trace.start = <<{}, {}>>) =>
        /\ \A m \in trace.hits : \E f \in find_by_id(m.id) : MessageEq(f, m)
        /\ trace.hits # {} =>
            \E m \in trace.hits :
                /\ find_latest_message_time = {m.created_at}
                /\ \A x \in trace.hits : x.created_at <= m.created_at
        /\ \A m \in trace.hits : trace.reads[m.id] = 0 /\ Notified(m.id) = 0

\* C10's case: the first tick with a token fetched two messages of
\* different created_at
C10_Witness ==
    /\ TickOver
    /\ trace.result = "Ok"
    /\ trace.tokens = "some"
    /\ trace.start = <<{}, {}>>
    /\ \E m, x \in trace.hits : m.created_at < x.created_at

----------------------------------------------------------------------------
(* Claims about the traQ service's read-through, under SpecRead. *)

\* C6: for every invocation of get_user_by_id or get_stamp_by_id: if the
\* store held the entity at the lookup, traQ is not called and the stored
\* entity is returned; if it did not and a token was stored, traQ is called
\* exactly once, and on its answer the entity fetched is saved once, is in
\* the store when the invocation returns, and is what it returns.
C6_ReadThrough ==
    \A k \in Slots :
        LET i == svc.inv[k]
        IN  i.op \in {"get_user_by_id", "get_stamp_by_id"} =>
                /\ i.cache = "hit" =>
                    /\ i.calls = 0
                    /\ i.saves = 0
                    /\ i.pc = "done"
                    /\ i.result = "Ok"
                    /\ i.ret # {}
                    /\ i.ret = i.seen
                /\ (i.cache = "miss" /\ i.tokens = "some" /\ i.pc = "done") =>
                    /\ i.calls = 1
                    /\ i.result = "Ok" =>
                        /\ i.fetched # {}
                        /\ i.saves = 1
                        /\ i.stored = i.fetched
                        /\ i.ret = i.fetched

\* C6's case: one invocation answered from the store, another one that
\* missed, fetched with a token, saved and returned
C6_Witness ==
    \E k, j \in Slots :
        /\ svc.inv[k].op = "get_user_by_id"
        /\ svc.inv[k].cache = "hit"
        /\ svc.inv[k].pc = "done"
        /\ svc.inv[j].op = "get_user_by_id"
        /\ svc.inv[j].cache = "miss"
        /\ svc.inv[j].result = "Ok"
        /\ svc.inv[j].saves = 1

----------------------------------------------------------------------------
(* Claims about add_message_stamp and remove_message_stamp, under          *)
(* SpecStamp.                                                              *)

\* C2: once remove_message_stamp(u, m, s) has returned Ok, and until u calls
\* add_message_stamp for that stamp again, find_by_id(m) holds no reaction
\* of u with stamp s, whatever the crawler does with m in between.
C2_RemovedStaysRemoved ==
    \A t \in svc.removed :
        \A f \in find_by_id(t[1]) :
            \A r \in f.reactions : ~(r.stamp_id = t[2] /\ r.user_id = t[3])

\* C3: when add_message_stamp has returned Ok, the stored message, as
\* find_by_id gives it at the return, equals the message the invocation's
\* get_message returned.
C3_AddStoresReconciled ==
    \A k \in Slots :
        LET i == svc.inv[k]
        IN  (i.op = "add_message_stamp" /\ i.pc = "done" /\ i.result = "Ok") =>
                \E f \in i.stored : \E g \in i.fetched : MessageEq(f, g)

----------------------------------------------------------------------------
(* Claims about the crawler loop, under SpecLoop. *)

\* C11: whatever a tick runs into (a failing repository call, a failing
\* search, no token), the loop goes on: from every time short of the model's
\* horizon, the crawler gets to start the crawl() of the next 30-second slot.
C11_LoopGoesOn ==
    \A n \in 0..(MaxTicks - 1) :
        (now = T0 + n * SleepSecs)
            ~> (now = T0 + (n + 1) * SleepSecs /\ crawler.pc = "crawl")

\* C11's case: a crawl() is about to start after ticks that failed
C11_Witness ==
    /\ crawler.pc = "crawl"
    /\ now = T0 + MaxTicks * SleepSecs
    /\ trace.prev = "Err"

----------------------------------------------------------------------------
(* More claims about the crawler, under SpecCrawl. *)

\* C12: a tick goes water mark, token, search, save_batch, refresh of the
\* candidates (get_message, find_by_id, save for each), notifications: each
\* step has the earlier ones behind it, and once a notification is out the
\* save_batch is done and every due candidate has had its refresh.
C12_TickOrder ==
    /\ trace.tokens # "unread" => trace.start # <<>>
    /\ trace.searches > 0 => trace.tokens = "some"
    /\ trace.batches > 0 => (trace.searches = 1 /\ trace.batches = 1)
    /\ (trace.due # {} \/ crawler.pc \in {"loop", "find", "save"}) => trace.batches = 1
    /\ \A id \in MsgIds :
        /\ trace.reads[id] > 0 => (id \in trace.due /\ trace.reads[id] = 1)
        /\ trace.existing[id] # {} => trace.fetched[id] # {}
        /\ trace.saves[id] > 0 => (trace.existing[id] # {} /\ trace.saves[id] = 1)
    /\ trace.notified # <<>> =>
        /\ trace.batches = 1
        /\ crawler.pc \in {"loop", "sleep"}
        /\ crawler.todo = {}
        /\ \A id \in trace.due : trace.reads[id] = 1
        /\ \A id \in trace.due : trace.existing[id] # {} => trace.saves[id] = 1

\* C12's case: a tick that refreshed two candidates and has notified
C12_Witness ==
    /\ trace.notified # <<>>
    /\ trace.batches = 1
    /\ Cardinality(trace.due) = 2
    /\ \A id \in trace.due : trace.saves[id] = 1

\* the row and the reactions of a message in given tables
Kept(tables, id) ==
    <<{r \in tables[1] : r.id = id}, {r \in tables[2] : r.message_id = id}>>

\* C13: when a tick is over in which get_message failed for a due
\* candidate, that candidate was not saved and not notified, its row (with
\* last_crawled_at) and reactions are as the tick found them, every other due
\* candidate had its get_message, and the tick returned Ok.
C13_FailedCandidateSkipped ==
    TickOver =>
        \A id \in trace.due :
            (trace.reads[id] = 1 /\ trace.fetched[id] = {}) =>
                /\ trace.saves[id] = 0
                /\ Notified(id) = 0
                /\ Kept(<<messages, reactions>>, id) = Kept(trace.start, id)
                /\ \A other \in trace.due : trace.reads[other] = 1
                /\ trace.result = "Ok"

\* C13's case: of two due candidates one failed at get_message, the other
\* was fetched and saved
C13_Witness ==
    /\ TickOver
    /\ \E id, other \in trace.due :
        /\ trace.reads[id] = 1
        /\ trace.fetched[id] = {}
        /\ trace.fetched[other] # {}
        /\ trace.saves[other] = 1

----------------------------------------------------------------------------
(* Claims about should_refresh, under SpecRefresh. *)

\* C14: should_refresh is true iff now - last_crawled_at is at least the
\* interval, which is 1 minute for an age below 3 hours, 10 minutes for an
\* age from 3 hours up to and including 12 hours, 30 minutes above 12 hours.
C14_ShouldRefreshBuckets ==
    call.op = "should_refresh" =>
        LET age == call.now - call.created_at
            interval == IF age < Hours(RecentAgeHours) THEN Minutes(RecentIntervalMinutes)
                        ELSE IF age <= Hours(MediumAgeHours) THEN Minutes(MediumIntervalMinutes)
                        ELSE Minutes(OldIntervalMinutes)
        IN  call.result <=> (call.now - call.last_crawled_at >= interval)

----------------------------------------------------------------------------
(* Claims about the merge of get_recommended_messages, under SpecMerge. *)

\* the ids of the items of a list, in its order
IdsOf(q) == [i \in DOMAIN q |-> q[i].id]

\* C15: whatever the four source lists hold, get_recommended_messages
\* returns at most 50 items and no message id twice, also when the sources
\* bring 200 candidates that overlap.
C15_AtMostFiftyNoDuplicate ==
    call.op = "merge" =>
        /\ Len(call.result) <= 50
        /\ \A i, j \in DOMAIN call.result :
                i # j => call.result[i].id # call.result[j].id

\* 200 candidates over 51 ids went in and 50 items came out
C15_Witness ==
    /\ call.op = "merge"
    /\ Len(call.top) + Len(call.auth) + Len(call.chan) + Len(call.sim) = 200
    /\ Cardinality(Range(IdsOf(call.top \o call.auth \o call.chan \o call.sim))) > 50
    /\ Len(call.result) = 50

\* C16: with the score of a message the sum, over the lists that hold it, of
\* base + max(0, 50 - i) * multiplier for its 0-based rank i (in hundredths:
\* TOP 500/10, AUTH 500/15, CHAN 300/10, SIM 500/10), a message of higher
\* score never comes after one of lower score, none left out scores higher
\* than one returned, and AUTH = [m1, m2], TOP = [m2, m3], CHAN = SIM = []
\* gives [m2, m1, m3].
C16_ScoreOrder ==
    call.op = "merge" =>
        LET part(q, id, base, mult) ==
                IF \E i \in DOMAIN q : q[i].id = id
                THEN LET i == CHOOSE j \in DOMAIN q : q[j].id = id
                     IN  base + (IF 50 - (i - 1) > 0 THEN 50 - (i - 1) ELSE 0) * mult
                ELSE 0
            total(id) == part(call.top, id, 500, 10) + part(call.auth, id, 500, 15)
                         + part(call.chan, id, 300, 10) + part(call.sim, id, 500, 10)
            out == IdsOf(call.result)
            all == Range(IdsOf(call.top \o call.auth \o call.chan \o call.sim))
        IN  /\ \A i, j \in DOMAIN out : i < j => total(out[i]) >= total(out[j])
            /\ \A x \in all \ Range(out) : \A i \in DOMAIN out : total(out[i]) >= total(x)
            /\ (/\ IdsOf(call.auth) = <<"m1", "m2">>
                /\ IdsOf(call.top) = <<"m2", "m3">>
                /\ call.chan = <<>>
                /\ call.sim = <<>>) => out = <<"m2", "m1", "m3">>

\* the lists of the example went in and [m2, m1, m3] came out
C16_Witness ==
    /\ call.op = "merge"
    /\ IdsOf(call.auth) = <<"m1", "m2">>
    /\ IdsOf(call.top) = <<"m2", "m3">>
    /\ call.chan = <<>>
    /\ call.sim = <<>>
    /\ IdsOf(call.result) = <<"m2", "m1", "m3">>

\* C17: of two messages of equal score, the one first seen earlier (going
\* through TOP, AUTH, CHAN, SIM in this order, each by rank) comes first and,
\* at the cut, is the one kept; so the lists determine the result.
C17_TiesInInsertionOrder ==
    call.op = "merge" =>
        LET all == IdsOf(call.top \o call.auth \o call.chan \o call.sim)
            seen(id) == CHOOSE i \in DOMAIN all :
                            all[i] = id /\ \A j \in DOMAIN all : all[j] = id => i <= j
            out == IdsOf(call.result)
        IN  /\ \A i, j \in DOMAIN out :
                    (i < j /\ Score(out[i], call.top, call.auth, call.chan, call.sim)
                                = Score(out[j], call.top, call.auth, call.chan, call.sim))
                        => seen(out[i]) < seen(out[j])
            /\ \A x \in Range(all) \ Range(out) : \A i \in DOMAIN out :
                    Score(out[i], call.top, call.auth, call.chan, call.sim)
                        = Score(x, call.top, call.auth, call.chan, call.sim)
                    => seen(out[i]) < seen(x)

----------------------------------------------------------------------------
(* Claims about last_crawled_at, under SpecCrawl. *)

\* C18: the last_crawled_at of a message id never goes down from one state
\* of the store to the next, and every save_batch and save of the crawler
\* leaves each message it saves, new to the store or not, with
\* last_crawled_at at the time of that save.
C18_LastCrawledAtMonotone ==
    [][/\ \A r \in messages : \A q \in messages' :
            q.id = r.id => q.last_crawled_at >= r.last_crawled_at
       /\ (crawler.pc = "save_batch" /\ crawler'.pc = "candidates") =>
            \A m \in crawler.batch :
                \E q \in messages' : q.id = m.id /\ q.last_crawled_at = now
       /\ (crawler.pc = "save" /\ crawler'.pc = "loop") =>
            \A m \in crawler.new :
                \E q \in messages' : q.id = m.id /\ q.last_crawled_at = now]_vars

\* m1 was in the store when the tick began and has been saved in this tick,
\* which moved its last_crawled_at up to now
C18_Witness ==
    /\ trace.start # <<>>
    /\ trace.saves["m1"] + trace.batches > 0
    /\ \E r \in messages : \E q \in trace.start[1] :
            /\ r.id = "m1" /\ q.id = "m1"
            /\ q.last_crawled_at < r.last_crawled_at
            /\ r.last_crawled_at = now

----------------------------------------------------------------------------
(* Claims about read marks and empty inputs, under SpecMarks. *)

\* the marks a call of mark_messages_as_read asks for
Asked == {<<call.user_id, call.message_ids[i]>> : i \in DOMAIN call.message_ids}

\* C19: mark_messages_as_read(user, ids) leaves exactly the marks that were
\* there and the marks asked for, whether ids repeat or are marked already:
\* no other mark goes or changes, and a call whose marks are all there (a
\* second application) leaves the set as it was.
C19_MarkIdempotent ==
    call.op = "mark_messages_as_read" =>
        /\ read_messages = call.before[3] \cup Asked
        /\ Asked \subseteq call.before[3] => read_messages = call.before[3]

\* a call with a repeated id, one of whose marks was there already next to a
\* mark of the other user
C19_Witness ==
    /\ call.op = "mark_messages_as_read"
    /\ \E i, j \in DOMAIN call.message_ids :
            i # j /\ call.message_ids[i] = call.message_ids[j]
    /\ Asked \cap call.before[3] # {}
    /\ \E p \in call.before[3] : p[1] # call.user_id
    /\ read_messages = call.before[3]

----------------------------------------------------------------------------
(* Claims about the notifier, under SpecCrawl and SpecSocket. *)

\* C21: when a tick is over in which an emit of the notifier failed, every
\* notification got its answer (none ended the tick), every refreshed
\* candidate that had changed was notified once, and the tick returned Ok.
C21_EmitFailureSwallowed ==
    (TickOver /\ \E i \in DOMAIN trace.emits : trace.emits[i] = "Err") =>
        /\ trace.result = "Ok"
        /\ crawler.refreshed = <<>>
        /\ Len(trace.emits) = Len(trace.notified)
        /\ \A id \in trace.due : \A new \in trace.fetched[id], old \in trace.existing[id] :
                ~MessageEq(old, new) => Notified(id) = 1

\* C21's case: the emit for the first of two changed messages failed and
\* the second was notified all the same
C21_Witness ==
    /\ TickOver
    /\ Len(trace.emits) = 2
    /\ trace.emits[1] = "Err"
    /\ trace.notified[1].id # trace.notified[2].id

\* what a client has received for a message id since the last call began
Got(c, id) == io.inbox[c][id] - call.before.inbox[c][id]

\* C22 as stated: notify_message_updated(m) brings the event exactly once to
\* each client subscribed to m.id at the call and to no other client, and
\* subscribe and unsubscribe for m.id leave the other subscriptions alone.
C22_ExactlyOnceToSubscribers ==
    /\ call.op = "notify_message_updated" =>
        \A c \in Clients : \A id \in MsgIds :
            Got(c, id) = IF id = call.id /\ <<c, id>> \in call.before.rooms THEN 1 ELSE 0
    /\ call.op \in {"subscribe", "unsubscribe"} =>
        /\ io.rooms \ {<<call.client, call.id>>}
                = call.before.rooms \ {<<call.client, call.id>>}
        /\ <<call.client, call.id>> \in io.rooms <=> call.op = "subscribe"

\* C22, amended: notify_message_updated(m) brings the event at most once to
\* a client subscribed to m.id at the call, exactly once to each of them
\* when the emit does not fail, and never to a client that is not
\* subscribed (never subscribed, or unsubscribed last); subscribe and
\* unsubscribe for m.id leave the other subscriptions alone.
C22_OnceToSubscribersUnlessEmitFails ==
    /\ call.op = "notify_message_updated" =>
        \A c \in Clients : \A id \in MsgIds :
            IF id = call.id /\ <<c, id>> \in call.before.rooms
            THEN Got(c, id) \in {0, 1} /\ (call.emit = "Ok" => Got(c, id) = 1)
            ELSE Got(c, id) = 0
    /\ call.op \in {"subscribe", "unsubscribe"} =>
        /\ io.rooms \ {<<call.client, call.id>>}
                = call.before.rooms \ {<<call.client, call.id>>}
        /\ <<call.client, call.id>> \in io.rooms <=> call.op = "subscribe"

\* a notification for m1 that went through while k1 was subscribed to m1
\* and k2 to m2 only, after earlier events
C22_Witness ==
    /\ call.op = "notify_message_updated"
    /\ call.id = "m1"
    /\ call.emit = "Ok"
    /\ call.before.rooms = {<<"k1", "m1">>, <<"k2", "m2">>}
    /\ call.before.inbox["k2"]["m1"] > 0
    /\ Got("k1", "m1") = 1

----------------------------------------------------------------------------
(* Claims about Message's equality, under SpecEq. *)

\* C23: two messages compare equal iff id, user_id, channel_id, content,
\* created_at and updated_at are equal and the reaction lists hold the same
\* set of (stamp_id, user_id, stamp_count), whatever the order of the
\* entries and however often each comes.
C23_EqualAsSets ==
    call.op = "eq" =>
        (call.result <=>
            /\ call.self.id = call.other.id
            /\ call.self.user_id = call.other.user_id
            /\ call.self.channel_id = call.other.channel_id
            /\ call.self.content = call.other.content
            /\ call.self.created_at = call.other.created_at
            /\ call.self.updated_at = call.other.updated_at
            /\ Range(call.self.reactions) = Range(call.other.reactions))

----------------------------------------------------------------------------
(* Claims about the service on its own, under SpecService. *)

\* C24: remove_message_stamp(u, m, s) looks up the token of u, then takes
\* the stamp off at traQ, then calls remove_reaction(m, s, u); it never calls
\* get_message nor save; and the local deletion takes exactly the rows of
\* (m, s, u) out of the store, every other reaction and every message row
\* staying as it was.
C24_RemoveOrderAndFrame ==
    [][\A k \in Slots :
        LET i == svc.inv[k]
            j == svc'.inv[k]
        IN  /\ j.op = "remove_message_stamp" =>
                /\ j.fetched = {} /\ j.saves = 0 /\ j.stored = {}
                /\ j.pc = "token" => (j.tokens = "unread" /\ j.calls = 0)
                /\ j.pc = "upstream" =>
                        (j.tokens = "some" /\ j.user_id \in user_tokens /\ j.calls = 0)
                /\ j.pc = "local" => (j.tokens = "some" /\ j.calls = 1)
                /\ (j.pc = "done" /\ j.result = "Ok") => (j.tokens = "some" /\ j.calls = 1)
            /\ (i.op = "remove_message_stamp" /\ i.pc # "local" /\ i # j) =>
                    UNCHANGED dbVars
            /\ (i.op = "remove_message_stamp" /\ i.pc = "local" /\ j.pc = "done"
                    /\ j.result = "Ok") =>
                /\ reactions' = {r \in reactions :
                        <<r.message_id, r.stamp_id, r.user_id>> # <<i.id, i.stamp_id, i.user_id>>}
                /\ UNCHANGED <<messages, read_messages, users, user_tokens, stamps>>
    ]_vars

\* C24's case: a remove_message_stamp has returned Ok on a message that
\* carried, and still carries, a stamp of another user and another stamp of
\* the same user, while the reactions of another message are in the store
C24_Witness ==
    \E k \in Slots :
        LET i == svc.inv[k]
        IN  /\ i.op = "remove_message_stamp" /\ i.pc = "done" /\ i.result = "Ok"
            /\ \A r \in reactions :
                    <<r.message_id, r.stamp_id, r.user_id>> # <<i.id, i.stamp_id, i.user_id>>
            /\ \E r \in reactions :
                    r.message_id = i.id /\ r.stamp_id = i.stamp_id /\ r.user_id # i.user_id
            /\ \E r \in reactions :
                    r.message_id = i.id /\ r.stamp_id # i.stamp_id /\ r.user_id = i.user_id
            /\ \E r \in reactions : r.message_id # i.id

\* C27: message rows are created by the crawler only: no step of the service
\* puts a message id into the store that was not there, and the reaction
\* rows a step of the service adds or removes are rows of the acting user on
\* the message the call is about.
C27_OnlyCrawlerCreatesMessages ==
    [][/\ {r.id : r \in messages'} \subseteq {r.id : r \in messages}
       /\ \A k \in Slots :
            svc'.inv[k] # svc.inv[k] =>
                \A r \in (reactions' \ reactions) \cup (reactions \ reactions') :
                    r.message_id = svc.inv[k].id /\ r.user_id = svc.inv[k].user_id
    ]_vars

----------------------------------------------------------------------------
(* Claims about the timeline service over a failing database, under        *)
(* SpecFail.                                                               *)

\* C25: when one of the three signal queries or of the four candidate
\* queries of get_recommended_messages fails, the call returns Err of
\* DomainError::Repository with the error of a query that failed, and no
\* list, not even of the candidates the other queries found.
C25_QueryFailureFailsCall ==
    (call.op = "get_recommended_messages" /\ \E q \in DOMAIN Queries : call.db[q] # "Ok") =>
        /\ call.returned = "Err"
        /\ "result" \notin DOMAIN call
        /\ call.error[1] = "Repository"
        /\ \E q \in DOMAIN Queries : call.db[q] # "Ok" /\ call.error[2] = call.db[q]

\* C25's case: a candidate query has failed in a call whose
\* find_top_reacted_messages was answered and had candidates to return
C25_Witness ==
    /\ call.op = "get_recommended_messages"
    /\ call.returned = "Err"
    /\ call.db[4] = "Ok"
    /\ \E q \in 5..7 : call.db[q] # "Ok"
    /\ \E top \in find_top_reacted_messages(call.viewer, TimelineLimit) : top # <<>>

----------------------------------------------------------------------------
(* Claims about the operations of the traQ service, under SpecOps. *)

\* C26: an operation of the traQ service whose token lookup finds nothing
\* returns its own error, without a call to traQ and without a write to the
\* store: NoTokenForUserFetch for get_user_by_id after a miss,
\* NoTokenForUserIcon for get_user_icon, NoTokenForStampFetch for
\* get_stamp_by_id after a miss, NoTokenForStampImage for get_stamp_image,
\* NoTokenForStampsList for get_stamps and search_stamps, and
\* NoTokenForUser(user_id) for add_message_stamp and remove_message_stamp
\* when user_id has no token, whoever else has one.
C26_NoTokenNoCall ==
    [][\A k \in Slots :
        LET i == svc.inv[k]
            j == svc'.inv[k]
            absent == IF i.op \in {"add_message_stamp", "remove_message_stamp"}
                      THEN i.user_id \notin user_tokens
                      ELSE user_tokens = {}
            expected ==
                CASE i.op = "get_user_by_id" -> "NoTokenForUserFetch"
                  [] i.op = "get_user_icon" -> "NoTokenForUserIcon"
                  [] i.op = "get_stamp_by_id" -> "NoTokenForStampFetch"
                  [] i.op = "get_stamp_image" -> "NoTokenForStampImage"
                  [] i.op \in {"get_stamps", "search_stamps"} -> "NoTokenForStampsList"
                  [] OTHER -> "NoTokenForUser"
        IN  (i.pc = "token" /\ j # i /\ absent) =>
                /\ j.pc = "done"
                /\ j.result = "Err"
                /\ j.error[1] = expected
                /\ expected = "NoTokenForUser" => j.error[2] = i.user_id
                /\ j.calls = 0 /\ j.fetched = {}
                /\ j.saves = 0 /\ j.stored = {}
                /\ UNCHANGED <<dbVars, up_messages>>
    ]_vars

\* C26's case: add_message_stamp of u2, who has no token, has failed while
\* u1 has one
C26_Witness ==
    /\ svc.inv["a"].op = "add_message_stamp"
    /\ svc.inv["a"].user_id = "u2"
    /\ svc.inv["a"].tokens = "none"
    /\ svc.inv["a"].pc = "done"
    /\ user_tokens = {"u1"}

----------------------------------------------------------------------------
(* Claims about the crawler over a store that loses rows, under SpecGone. *)

\* C28: when find_by_id returns nothing for a candidate of the refresh whose
\* get_message has succeeded, the tick fails with NoMessageForId(id);
\* nothing is saved for that id nor for the candidates the loop had not come
\* to yet, and the crawler goes to its sleep, from which the next tick starts.
C28_NoMessageForIdEndsTick ==
    /\ (crawler.pc = "find" /\ find_by_id(crawler.cur) = {}) =>
            (ENABLED RefreshFind /\ trace.fetched[crawler.cur] # {})
    /\ trace.error[1] = "NoMessageForId" =>
        /\ trace.result = "Err"
        /\ trace.fetched[trace.error[2]] # {}
        /\ trace.saves[trace.error[2]] = 0
        /\ \A id \in trace.due : trace.existing[id] = {} => trace.saves[id] = 0
        /\ crawler.pc = "sleep"
        /\ crawler.todo = {} /\ crawler.new = {} /\ crawler.refreshed = <<>>

\* C28's case: the tick has ended with NoMessageForId for one candidate
\* while another candidate was due that it had not read yet
C28_Witness ==
    /\ trace.error[1] = "NoMessageForId"
    /\ \E id \in trace.due : id # trace.error[2] /\ trace.reads[id] = 0

----------------------------------------------------------------------------
(* Claims about the refresh window, under SpecWindow. *)

\* C29: find_sync_candidates returns the stored messages whose created_at is
\* not before now - 24 hours, those and no others, so that a tick of the
\* crawler issues no refresh get_message for a stored message that is older
\* than 24 hours.
C29_RefreshWindow ==
    /\ {c[1] : c \in find_sync_candidates} =
            {r.id : r \in {q \in messages : now - q.created_at <= Hours(24)}}
    /\ \A c \in find_sync_candidates :
            \E r \in messages : c = <<r.id, r.created_at, r.last_crawled_at>>
    /\ \A r \in messages :
            now - r.created_at > Hours(24) =>
                (r.id \notin trace.due /\ trace.reads[r.id] = 0)

\* C29's case: a tick has ended that has read the message that was 24
\* hours old to the second and has left alone the one a second older
C29_Witness ==
    /\ trace.result = "Ok"
    /\ \E r \in messages :
            now - r.created_at = Hours(24) /\ trace.reads[r.id] = 1
    /\ \E r \in messages :
            now - r.created_at > Hours(24) /\ trace.reads[r.id] = 0

----------------------------------------------------------------------------
(* Claims about the user repository, under SpecUser. *)

\* C30: after save(u) of the user repository, whatever the store held
\* before, a row of u.id with another handle or another display_name
\* included, find_by_id(u.id) returns the id, the handle and the
\* display_name of u.
C30_UserSaveThenFind ==
    call.op = "save" => user_find_by_id(call.user.id) = {call.user}

----------------------------------------------------------------------------
(* More claims about the message repository, under SpecRepo. *)

\* C31: in every state of the store, every stored message has created_at no
\* later than updated_at and updated_at no later than last_crawled_at,
\* whatever the messages are that traQ returned and that were given to save
\* and save_batch.
C31_TimestampOrder ==
    \A r \in messages : r.created_at <= r.updated_at /\ r.updated_at <= r.last_crawled_at

----------------------------------------------------------------------------
(* Claims about a removal next to the crawler, under SpecAged. *)

\* C32: after remove_message_stamp(u, m, s) has returned Ok and traQ's copy
\* of m has lost the reaction, the store comes to hold no reaction (m, s, u)
\* and keeps none, however the removal and the ticks of the crawler fall
\* together and whatever the age of m.  Checked at the states from which no
\* refresh of m is to come: m is older than the 24 hours of the candidate
\* window and the crawler is between two ticks; there the reaction must be
\* gone already.
C32_RemovalConverges ==
    \A t \in svc.removed :
        (/\ \A m \in get_message(t[1]) :
                \A r \in m.reactions : ~(r.stamp_id = t[2] /\ r.user_id = t[3])
         /\ crawler.pc \in {"sleep", "crawl"}
         /\ \A r \in messages : r.id = t[1] => now - r.created_at > Hours(24))
        => \A r \in reactions :
                ~(r.message_id = t[1] /\ r.stamp_id = t[2] /\ r.user_id = t[3])

----------------------------------------------------------------------------
(* Claims about changes and their notifications, under SpecCrawl. *)

\* C33: when a tick is over that has changed the stored content or the
\* stored reactions of a message the store held before the tick,
\* notify_message_updated was called for that message in the tick; so it is
\* for the message at the water mark that the search returns again and
\* save_batch overwrites.
C33_ChangeNotifiedInTick ==
    TickOver =>
        \A id \in MsgIds :
            LET before == Kept(trace.start, id)
                after == Kept(<<messages, reactions>>, id)
            IN  (/\ before[1] # {}
                 /\ \/ {r.content : r \in before[1]} # {r.content : r \in after[1]}
                    \/ before[2] # after[2])
                => Notified(id) > 0

----------------------------------------------------------------------------
(* More claims about the crawler loop, under SpecLoop. *)

\* C34: no change the refresh has detected is lost: a candidate that
\* differed from its stored copy and was saved is notified of in that tick
\* or in a later one, also when a later candidate of the tick ends the tick
\* with an error.  Checked where a later tick has nothing left to detect:
\* the tick is over and the store holds the message as traQ does, so the
\* notification must have been made in the tick.
C34_DetectedChangeNotified ==
    TickOver =>
        \A id \in trace.due : \A new \in trace.fetched[id], old \in trace.existing[id] :
            (/\ ~MessageEq(old, new)
             /\ trace.saves[id] = 1
             /\ \E f \in find_by_id(id), m \in get_message(id) : MessageEq(f, m))
            => Notified(id) > 0

----------------------------------------------------------------------------
(* Claims about the water mark, under SpecWater. *)

\* C35: the water mark of the crawler, the greatest created_at of the
\* stored messages, never gets past a message of traQ that is not stored, so
\* that every message of traQ is fetched in the end, also when
\* add_message_stamp saves a message that is newer than messages the crawler
\* has not fetched yet.  (The store starts empty: every message of traQ is
\* created after the first water mark, a day before the first tick.)
C35_WaterMarkBehindUnstored ==
    \A m \in up_messages :
        find_by_id(m.id) = {} =>
            \A t \in find_latest_message_time : t <= m.created_at

----------------------------------------------------------------------------
(* Claims about the rate of the refresh, under SpecStamp. *)

\* C36: the crawler reads a message again with get_message only when the
\* interval of the bucket of its age has gone by since the row was last
\* saved, whichever path saved it: at every refresh read of a tick, the
\* stored row of the message is one that should_refresh lets through.
C36_RefreshReadOnlyWhenDue ==
    [][\A id \in MsgIds :
            trace'.reads[id] = trace.reads[id] + 1 =>
                \A r \in messages :
                    r.id = id => should_refresh(r.created_at, r.last_crawled_at, now)]_vars

----------------------------------------------------------------------------
(* Claims about the errors of the stamp operations, under SpecService. *)

\* C37: an add_message_stamp or remove_message_stamp that returns an error
\* has left the message and reaction store as it was: the step that ends
\* the call with the error writes nothing, the call has saved nothing, and
\* the only steps of a call that write are the ones that end it with Ok.
\* An error of traQ ends the call at once, so that a failed add or remove at
\* traQ is followed by no get_message, no save and no remove_reaction, and a
\* failed get_message by no save.  The error returned is TraqClient with the
\* error of traQ in it, Repository for a failure of the store, or
\* NoTokenForUser.
C37_ErrorLeavesStore ==
    [][\A k \in Slots :
        LET i == svc.inv[k]
            j == svc'.inv[k]
        IN  j.op \in {"add_message_stamp", "remove_message_stamp"} =>
            /\ (i # j /\ j.pc = "done" /\ j.result = "Err") =>
                    /\ UNCHANGED <<dbVars, up_messages>>
                    /\ j.saves = 0 /\ j.stored = {}
                    /\ j.fetched = i.fetched
                    /\ i.pc = "upstream" => (j.fetched = {} /\ j.error[1] = "TraqClient")
                    /\ i.pc = "get" => j.error[1] = "TraqClient"
                    /\ i.pc \in {"save", "local"} => j.error = <<"Repository", "Database">>
                    /\ i.pc = "token" => j.error[1] \in {"Repository", "NoTokenForUser"}
            /\ (i # j /\ <<messages, reactions>>' # <<messages, reactions>>) =>
                    (j.pc = "done" /\ j.result = "Ok")
            /\ j.error[1] = "TraqClient" =>
                    /\ j.error[2] \in TraqErrors
                    /\ j.pc = "done" /\ j.result = "Err"
                    /\ i # j => i.pc \in {"upstream", "get"}
            /\ (i.pc = "done" /\ i.op = j.op /\ j.pc = "done") => j = i
    ]_vars

\* C37's case: an add_message_stamp of u1 has put the stamp on at traQ, its
\* get_message has failed, and the call has returned the TraqClient error:
\* traQ counts one more of the stamp than the store does
C37_Witness ==
    \E k \in Slots :
        LET i == svc.inv[k]
        IN  /\ i.op = "add_message_stamp" /\ i.pc = "done" /\ i.result = "Err"
            /\ i.error[1] = "TraqClient"
            /\ i.saves = 0
            /\ \E f \in find_by_id(i.id), m \in get_message(i.id) :
                    /\ Reaction(i.stamp_id, i.user_id, 1) \in f.reactions
                    /\ Reaction(i.stamp_id, i.user_id, 2) \in m.reactions

----------------------------------------------------------------------------
(* Claims about the convergence of the store, under SpecCrawl. *)

\* C38: a stored message younger than 24 hours whose copy at traQ differs
\* from the stored copy, and stays as it is, ends up in the store as traQ
\* holds it, and is notified of.  Stated for the tick that has read the copy
\* traQ still holds, as a hit of its search or with get_message: when that
\* tick is over, the store holds the copy and the tick has notified of the
\* message.  (A later tick finds the same two copies as this one left them.)
C38_StableChangeConverges ==
    TickOver =>
        \A m \in up_messages :
            LET before == FindIn(trace.start[1], trace.start[2], m.id)
            IN  (/\ before # {}
                 /\ \A b \in before : ~MessageEq(b, m)
                 /\ now - m.created_at < Hours(SyncWindowHours)
                 /\ m \in trace.hits \/ trace.fetched[m.id] = {m})
                => /\ \E f \in find_by_id(m.id) : MessageEq(f, m)
                   /\ Notified(m.id) > 0

----------------------------------------------------------------------------
(* Claims about the notification of what the service writes, under         *)
(* SpecStamp.                                                              *)

\* C39: an add_message_stamp or remove_message_stamp that has returned Ok
\* and has changed the stored reactions of its message is followed by a
\* notification of that message.  Stated where no notification can come any
\* more: the call is over, the tick is over, and the store holds the message
\* as traQ does, so that the refresh of a later tick finds nothing changed.
\* (seen is the stored copy the call found when it wrote.)
C39_ServiceChangeNotified ==
    \A k \in Slots :
        LET i == svc.inv[k]
        IN  (/\ i.op \in {"add_message_stamp", "remove_message_stamp"}
             /\ i.pc = "done" /\ i.result = "Ok"
             /\ TickOver
             /\ \E b \in i.seen, f \in find_by_id(i.id), m \in get_message(i.id) :
                    /\ b.reactions # f.reactions
                    /\ MessageEq(f, m))
            => Notified(i.id) > 0

----------------------------------------------------------------------------
(* Claims about the concurrent queries, under SpecJoin. *)

\* C40: the score of every message is fixed by the four lists alone,
\* whichever order the four queries complete in: it is the sum, over the
\* lists that hold the message, of the contribution of the list by the place
\* it has in the source (TOP 500/10, AUTH 500/15, CHAN 300/10, SIM 500/10,
\* in hundredths), every message of a list is scored, and the result is one
\* the merge of the lists in the order TOP, AUTH, CHAN, SIM gives.
C40_ScoreIndependentOfCompletion ==
    call.op = "merge" =>
        LET part(q, id, base, mult) ==
                IF \E i \in DOMAIN q : q[i].id = id
                THEN LET i == CHOOSE j \in DOMAIN q : q[j].id = id
                     IN  base + (IF 50 - (i - 1) > 0 THEN 50 - (i - 1) ELSE 0) * mult
                ELSE 0
            total(id) == part(call.top, id, 500, 10) + part(call.auth, id, 500, 15)
                         + part(call.chan, id, 300, 10) + part(call.sim, id, 500, 10)
        IN  /\ DOMAIN call.score =
                    {x.id : x \in Range(call.top \o call.auth \o call.chan \o call.sim)}
            /\ \A id \in DOMAIN call.score : call.score[id] = total(id)
            /\ call.result \in Merge(call.top, call.auth, call.chan, call.sim)

\* C40's case: the query of SIM completed first and that of TOP last, over
\* lists that would score m1 otherwise if they changed places
C40_Witness ==
    /\ call.op = "merge"
    /\ call.order = <<4, 3, 2, 1>>
    /\ IdsOf(call.top) = <<"m1", "m2">>
    /\ IdsOf(call.auth) = <<"m2">>
    /\ call.chan = <<>>
    /\ IdsOf(call.sim) = <<"m2", "m1">>
    /\ call.score["m1"] = 1000 + 990

====
